---- MODULE Spec2Model ----
(***************************************************************************)
(* Issue-history aggregation engine of the Team-management service         *)
(* (JiraService): dual-shard fetch and merge, per-date classification,     *)
(* the per-(account, date) history upsert, and the account-detail lookup   *)
(* with shard fallback.                                                    *)
(*                                                                         *)
(* Nine specifications share this module:                                  *)
(*   SpecClassify  the classifier of the four count... passes, as a pure   *)
(*                 function of the two shard responses;                    *)
(*   Spec          the document store and concurrently running passes,     *)
(*                 with the load and save steps of every upsert separate;  *)
(*   SpecDetails   getUserDetails and its shard A / shard B fallback;      *)
(*   SpecScore     the scorer on the histories that passes have stored;    *)
(*   SpecBatch     the scheduler's batch jobs on two stored users;         *)
(*   SpecAccounts  calls for either of two stored users, and the scorer;   *)
(*   SpecRatio     the done passes on issues that carry links;             *)
(*   SpecUsers     archiveUser and deleteUser of the users service;        *)
(*   SpecPass      passes run one after another on two stored users.       *)
(*                                                                         *)
(* Strings that the code takes apart (due-date timestamps) are sequences   *)
(* of tokens; a nullable string is a record [null, s].                     *)
(* The users collection is a Mongoose model: findOne hands out a private   *)
(* document, and user.save() sends the paths changed on it ($push for a    *)
(* pushed history element, a positional $set for a changed field of an     *)
(* element), the positional ones conditioned on the version key.           *)
(* The scorer getAllUserMetrics runs against the same collection.          *)
(***************************************************************************)
EXTENDS Integers, Sequences, FiniteSets, TLC

VARIABLES
    \* SpecClassify
    cpc,          \* position of the classifier run: "fetched", "merged", "classified"
    response1,    \* response1.data.issues (shard A)
    response2,    \* response2.data.issues (shard B)
    combined,     \* notDoneIssues / doneIssues: the combined list
    variant,      \* which pass classified the list
    classified,   \* the classifier's outcome: [threw, buckets]
    \* Spec
    users,        \* the users collection: accountId -> document or Absent
    task,         \* the running operations: task id -> record
    started,      \* number of operations started so far
    \* SpecDetails
    req           \* the running getUserDetails calls: request id -> record

cvars == <<cpc, response1, response2, combined, variant, classified>>
svars == <<users, task, started>>
dvars == <<req>>
vars == <<cpc, response1, response2, combined, variant, classified,
          users, task, started, req>>

-----------------------------------------------------------------------------
(* Bounds *)

\* longest issue list a shard returns in SpecClassify
MaxShardLen == 2

\* number of passes started in one behaviour of Spec
MaxOps == 2

-----------------------------------------------------------------------------
(* Strings and nullable strings *)

NullStr == [null |-> TRUE, s |-> <<>>]

Str(tokens) == [null |-> FALSE, s |-> tokens]

\* str.split('T')[0]: the tokens before the first 'T'
RECURSIVE SplitTFirst(_)
SplitTFirst(s) ==
    IF s = <<>> THEN <<>>
    ELSE IF Head(s) = "T" THEN <<>>
    ELSE <<Head(s)>> \o SplitTFirst(Tail(s))

\* issue.fields.duedate?.split('T')[0]; undefined is the empty NullStr
DueDateOf(issue) ==
    IF issue.duedate.null THEN NullStr ELSE Str(SplitTFirst(issue.duedate.s))

\* JavaScript truthiness of a nullable string
Truthy(x) == ~x.null /\ x.s # <<>>

-----------------------------------------------------------------------------
(* Tracker issues *)

IssueTypes == {"Task", "Bug", "Story", "Epic"}

NoIssue == [present |-> FALSE, issuetype |-> ""]

LinkedIssue(t) == [present |-> TRUE, issuetype |-> t]

Link(name, outward, inward) ==
    [type |-> name, outwardIssue |-> outward, inwardIssue |-> inward]

\* fields.issuelinks is optional
NoLinks == [present |-> FALSE, links |-> <<>>]

Links(ls) == [present |-> TRUE, links |-> ls]

JiraIssue(id, t, due, ls) ==
    [id |-> id, summary |-> id, status |-> "Open",
     issuetype |-> t, duedate |-> due, issuelinks |-> ls]

\* the issues the shards can return
Catalogue ==
    { JiraIssue("i1", "Task",  Str(<<"d1">>),            Links(<<>>)),
      JiraIssue("i2", "Bug",   Str(<<"d1", "T", "09">>), NoLinks),
      JiraIssue("i3", "Story", Str(<<"d2">>),
                Links(<<Link("Blocks", LinkedIssue("Bug"), NoIssue)>>)),
      JiraIssue("i4", "Epic",  Str(<<"d1">>),            NoLinks),
      JiraIssue("i5", "Task",  NullStr,                  Links(<<>>)),
      JiraIssue("i6", "Story", Str(<<"d1">>),
                Links(<<Link("Relates", NoIssue, LinkedIssue("Bug"))>>)) }

SeqsUpTo(S, n) == UNION { [1..k -> S] : k \in 0..n }

-----------------------------------------------------------------------------
(* The classifier: the forEach loops of the four count... passes *)

ZeroCount == [Task |-> 0, Bug |-> 0, Story |-> 0]

ZeroCountToday == [Task |-> 0, Bug |-> 0, Story |-> 0, LinkedBugs |-> 0]

\* a classifier whose last branch is a plain else: every other type is a Story
CountTypeElseStory(counts, issueType) ==
    IF issueType = "Task" THEN [counts EXCEPT !.Task = @ + 1]
    ELSE IF issueType = "Bug" THEN [counts EXCEPT !.Bug = @ + 1]
    ELSE [counts EXCEPT !.Story = @ + 1]

\* if (issueType === 'Task') ... else if 'Bug' ... else if 'Story' ...
CountType(counts, issueType) ==
    IF issueType = "Task" THEN [counts EXCEPT !.Task = @ + 1]
    ELSE IF issueType = "Bug" THEN [counts EXCEPT !.Bug = @ + 1]
    ELSE IF issueType = "Story" THEN [counts EXCEPT !.Story = @ + 1]
    ELSE counts

\* countsByDate / issuesByDate / bugLinksByDate: one bucket per key, in the
\* order the keys were inserted (the order Object.entries walks them)
HasDate(buckets, date) == \E i \in 1..Len(buckets) : buckets[i].date = date

IndexOfDate(buckets, date) ==
    CHOOSE i \in 1..Len(buckets) : buckets[i].date = date

\* if (!countsByDate[dueDate]) { countsByDate[dueDate] = {...}; issuesByDate[dueDate] = [] }
EnsureBucket(buckets, date, counts0) ==
    IF HasDate(buckets, date) THEN buckets
    ELSE Append(buckets, [date |-> date, counts |-> counts0,
                          issues |-> <<>>, bugLinks |-> 0])

\* the snapshot pushed by the 30-day passes: dueDate is fields.duedate || null
Snapshot30(issue) ==
    [issueId |-> issue.id, summary |-> issue.summary, status |-> issue.status,
     issueType |-> issue.issuetype,
     dueDate |-> IF Truthy(issue.duedate) THEN issue.duedate ELSE NullStr]

\* the snapshot pushed by the today passes: dueDate is the truncated date
SnapshotToday(issue) ==
    [issueId |-> issue.id, summary |-> issue.summary, status |-> issue.status,
     issueType |-> issue.issuetype, dueDate |-> DueDateOf(issue)]

\* issue.fields.issuelinks || []
IssueLinks(issue) ==
    IF issue.issuelinks.present THEN issue.issuelinks.links ELSE <<>>

\* link.type.name === 'Blocks' && link.outwardIssue.fields.issuetype.name === 'Bug'
BlocksBug(link) ==
    link.type = "Blocks" /\ link.outwardIssue.present
        /\ link.outwardIssue.issuetype = "Bug"

\* the same test dereferences an absent outwardIssue and throws a TypeError
BlocksThrows(link) == link.type = "Blocks" /\ ~link.outwardIssue.present

\* link.outwardIssue?.fields.issuetype.name === 'Bug' || link.inwardIssue?...
LinksBug(link) ==
    \/ link.outwardIssue.present /\ link.outwardIssue.issuetype = "Bug"
    \/ link.inwardIssue.present /\ link.inwardIssue.issuetype = "Bug"

\* links.forEach((link) => { if (...) bugs++ }) in the 30-day done pass
CountBlocksBug(links) == Cardinality({i \in 1..Len(links) : BlocksBug(links[i])})

\* the same loop in the today-only done pass
CountLinksBug(links) == Cardinality({i \in 1..Len(links) : LinksBug(links[i])})

\* an iteration that lists an issue only when it also counts it
StepNotDoneCountedOnly(buckets, issue) ==
    LET dueDate == DueDateOf(issue) IN
    IF ~Truthy(dueDate) THEN buckets
    ELSE LET b == EnsureBucket(buckets, dueDate.s, ZeroCount)
             k == IndexOfDate(b, dueDate.s)
         IN IF issue.issuetype \in {"Task", "Bug", "Story"}
            THEN [b EXCEPT ![k].counts = CountType(@, issue.issuetype),
                           ![k].issues = Append(@, Snapshot30(issue))]
            ELSE b

\* one iteration of notDoneIssues.forEach in countNotDoneIssues
StepNotDone(buckets, issue) ==
    LET dueDate == DueDateOf(issue) IN
    IF ~Truthy(dueDate) THEN buckets
    ELSE LET b == EnsureBucket(buckets, dueDate.s, ZeroCount)
             k == IndexOfDate(b, dueDate.s)
         IN [b EXCEPT ![k].counts = CountType(@, issue.issuetype),
                      ![k].issues = Append(@, Snapshot30(issue))]

\* one iteration of notDoneIssues.forEach in countNotDoneIssuesForToday
StepNotDoneToday(buckets, issue) ==
    LET dueDate == DueDateOf(issue) IN
    IF ~Truthy(dueDate) THEN buckets
    ELSE LET b == EnsureBucket(buckets, dueDate.s, ZeroCount)
             k == IndexOfDate(b, dueDate.s)
         IN [b EXCEPT ![k].counts = CountType(@, issue.issuetype),
                      ![k].issues = Append(@, SnapshotToday(issue))]

\* one iteration of doneIssues.forEach in countDoneIssues
StepDone(buckets, issue) ==
    LET dueDate == DueDateOf(issue) IN
    IF ~Truthy(dueDate) THEN buckets
    ELSE LET b == EnsureBucket(buckets, dueDate.s, ZeroCount)
             k == IndexOfDate(b, dueDate.s)
         IN [b EXCEPT ![k].counts = CountType(@, issue.issuetype),
                      ![k].bugLinks = @ + CountBlocksBug(IssueLinks(issue)),
                      ![k].issues = Append(@, Snapshot30(issue))]

\* one iteration of the for...of loop in countDoneIssuesForToday
StepDoneToday(buckets, issue) ==
    LET dueDate == DueDateOf(issue) IN
    IF ~Truthy(dueDate) THEN buckets
    ELSE LET b == EnsureBucket(buckets, dueDate.s, ZeroCountToday)
             k == IndexOfDate(b, dueDate.s)
             c == CountType(b[k].counts, issue.issuetype)
         IN [b EXCEPT ![k].counts =
                          [c EXCEPT !.LinkedBugs =
                               @ + CountLinksBug(IssueLinks(issue))],
                      ![k].issues = Append(@, SnapshotToday(issue))]

Variants == {"notDone30", "notDoneToday", "done30", "doneToday"}

Step(v, buckets, issue) ==
    CASE v = "notDone30"    -> StepNotDone(buckets, issue)
      [] v = "notDoneToday" -> StepNotDoneToday(buckets, issue)
      [] v = "done30"       -> StepDone(buckets, issue)
      [] v = "doneToday"    -> StepDoneToday(buckets, issue)

\* the loop over the combined list, first issue first
RECURSIVE ForEach(_, _, _)
ForEach(v, buckets, issues) ==
    IF issues = <<>> THEN buckets
    ELSE ForEach(v, Step(v, buckets, Head(issues)), Tail(issues))

\* countDoneIssues: a 'Blocks' link without outwardIssue on an issue that has
\* a due date throws inside the forEach
ThrowsDone(issues) ==
    \E i \in 1..Len(issues) :
        /\ Truthy(DueDateOf(issues[i]))
        /\ \E j \in 1..Len(IssueLinks(issues[i])) :
               BlocksThrows(IssueLinks(issues[i])[j])

\* countDoneIssuesForToday: issue.fields.issuelinks.some(...) in the save loop
\* throws on a Task or Story without issuelinks, as soon as there is a date
ThrowsDoneToday(issues) ==
    /\ ForEach("doneToday", <<>>, issues) # <<>>
    /\ \E i \in 1..Len(issues) :
           /\ issues[i].issuetype \in {"Task", "Story"}
           /\ ~issues[i].issuelinks.present

Classify(v, issues) ==
    [threw |-> CASE v = "done30"    -> ThrowsDone(issues)
                 [] v = "doneToday" -> ThrowsDoneToday(issues)
                 [] OTHER           -> FALSE,
     buckets |-> ForEach(v, <<>>, issues)]

-----------------------------------------------------------------------------
(* Numbers that are not integers: exact fractions in lowest terms *)

RECURSIVE GCD(_, _)
GCD(a, b) == IF b = 0 THEN a ELSE GCD(b, a % b)

\* n / d for n >= 0, d > 0
Frac(n, d) == LET g == GCD(n, d) IN [num |-> n \div g, den |-> d \div g]

\* parseFloat((n / d).toFixed(2)): the nearest hundredth, ties upward
ToFixed2(n, d) == Frac((200 * n + d) \div (2 * d), 100)

FracAdd(x, y) == Frac(x.num * y.den + y.num * x.den, x.den * y.den)

\* x / n for an integer n > 0
FracOver(x, n) == Frac(x.num, x.den * n)

RECURSIVE FracSum(_)
FracSum(xs) == IF xs = <<>> THEN Frac(0, 1) ELSE FracAdd(Head(xs), FracSum(Tail(xs)))

-----------------------------------------------------------------------------
(* The save loops: the arguments of the upsert of every date, in key order *)

\* countNotDoneIssues, countNotDoneIssuesForToday
NotDoneArgs(bucket) ==
    [date |-> bucket.date, counts |-> bucket.counts, issues |-> bucket.issues,
     codeToBugRatio |-> Frac(0, 1)]

\* a ratio over all the counted issues of the date, bugs included
DoneArgsOverAllCounted(bucket) ==
    LET total == bucket.counts.Task + bucket.counts.Story + bucket.counts.Bug IN
    [date |-> bucket.date, counts |-> bucket.counts, issues |-> bucket.issues,
     codeToBugRatio |-> IF total > 0 THEN Frac(bucket.bugLinks, total)
                        ELSE Frac(0, 1)]

\* countDoneIssues: bugLinksByDate[date] / (counts.Task + counts.Story), or 0
DoneArgs(bucket) ==
    LET totalTasksAndStories == bucket.counts.Task + bucket.counts.Story IN
    [date |-> bucket.date, counts |-> bucket.counts, issues |-> bucket.issues,
     codeToBugRatio |-> IF totalTasksAndStories > 0
                        THEN Frac(bucket.bugLinks, totalTasksAndStories)
                        ELSE Frac(0, 1)]

\* tasksWithLinkedBugs: filtered from the whole doneIssues list on every date
TasksWithLinkedBugs(doneIssues) ==
    SelectSeq(doneIssues,
              LAMBDA issue :
                  /\ issue.issuetype \in {"Task", "Story"}
                  /\ \E j \in 1..Len(issue.issuelinks.links) :
                         LinksBug(issue.issuelinks.links[j]))

\* a ratio stored as the quotient, not rounded
DoneTodayArgsUnrounded(bucket, doneIssues) ==
    LET taskAndStoryCount == Len(TasksWithLinkedBugs(doneIssues))
        linkedBugsCount == bucket.counts.LinkedBugs
    IN [date |-> bucket.date, counts |-> bucket.counts, issues |-> bucket.issues,
        codeToBugRatio |-> IF taskAndStoryCount > 0
                           THEN Frac(linkedBugsCount, taskAndStoryCount)
                           ELSE Frac(0, 1)]

\* countDoneIssuesForToday: counts.LinkedBugs / tasksWithLinkedBugs.length, or 0
DoneTodayArgs(bucket, doneIssues) ==
    LET taskAndStoryCount == Len(TasksWithLinkedBugs(doneIssues))
        linkedBugsCount == bucket.counts.LinkedBugs
    IN [date |-> bucket.date, counts |-> bucket.counts, issues |-> bucket.issues,
        codeToBugRatio |-> IF taskAndStoryCount > 0
                           THEN ToFixed2(linkedBugsCount, taskAndStoryCount)
                           ELSE Frac(0, 1)]

SaveArgs(v, issues, buckets) ==
    [k \in 1..Len(buckets) |->
        CASE v = "done30"    -> DoneArgs(buckets[k])
          [] v = "doneToday" -> DoneTodayArgs(buckets[k], issues)
          [] OTHER           -> NotDoneArgs(buckets[k])]

\* a merge that drops from the second list what the first already holds
CombineDeduplicated(issues1, issues2) ==
    issues1 \o SelectSeq(issues2,
                         LAMBDA x : \A i \in 1..Len(issues1) : issues1[i].id # x.id)

\* [...response1.data.issues, ...response2.data.issues]
Combine(issues1, issues2) == issues1 \o issues2

-----------------------------------------------------------------------------
(* The users collection and the history upsert *)

AccountIds == {"a1", "a2"}

Absent == [exists |-> FALSE]

\* a document as saveUser creates it: schema defaults, empty history, and
\* the version key the schema adds (versionKey is not switched off)
NewUser ==
    [exists |-> TRUE, issueHistory |-> <<>>,
     currentPerformance |-> Frac(0, 1), isArchive |-> FALSE, versionKey |-> 0]

\* the schema keeps Task, Bug and Story of a count and drops any other key
CastCount(counts) ==
    [Task |-> counts.Task, Bug |-> counts.Bug, Story |-> counts.Story]

\* an issueHistory element with every schema default applied
DefaultEntry(date) ==
    [date |-> date,
     issuesCount |-> [notDone |-> ZeroCount, done |-> ZeroCount],
     taskCompletionRate |-> Frac(0, 1),
     userStoryCompletionRate |-> Frac(0, 1),
     overallScore |-> Frac(0, 1),
     comment |-> <<>>,
     codeToBugRatio |-> Frac(0, 1),
     notDoneIssues |-> <<>>,
     doneIssues |-> <<>>]

\* a lookup that creates the document it does not find
FindOneOrCreate(collection, accountId) ==
    IF collection[accountId].exists THEN collection[accountId] ELSE NewUser

\* this.userModel.findOne({ accountId }): the stored document, or null
FindOne(collection, accountId) == collection[accountId]

\* if (!user) throw new InternalServerErrorException('User not found')
UserNotFound(user) == ~user.exists

\* user.issueHistory.find((history) => history.date === date): first match
HasHistory(user, date) ==
    \E i \in 1..Len(user.issueHistory) : user.issueHistory[i].date = date

\* a lookup that answers the last element, whatever its date
FindLastHistory(user, date) == Len(user.issueHistory)

FindHistory(user, date) ==
    CHOOSE i \in 1..Len(user.issueHistory) :
        /\ user.issueHistory[i].date = date
        /\ \A j \in 1..(i - 1) : user.issueHistory[j].date # date

\* an update that adds the new not-done issues to the ones already stored
SetNotDoneAppending(user, date, counts, issues) ==
    IF HasHistory(user, date)
    THEN LET i == FindHistory(user, date) IN
         [user EXCEPT !.issueHistory[i].issuesCount.notDone = CastCount(counts),
                      !.issueHistory[i].notDoneIssues = @ \o issues]
    ELSE [user EXCEPT !.issueHistory =
             Append(@, [DefaultEntry(date) EXCEPT
                           !.issuesCount.notDone = CastCount(counts),
                           !.notDoneIssues = issues])]

\* the document saveNotDoneIssueCounts hands to user.save()
SetNotDone(user, date, counts, issues) ==
    IF HasHistory(user, date)
    THEN LET i == FindHistory(user, date) IN
         [user EXCEPT !.issueHistory[i].issuesCount.notDone = CastCount(counts),
                      !.issueHistory[i].notDoneIssues = issues]
    ELSE [user EXCEPT !.issueHistory =
             Append(@, [DefaultEntry(date) EXCEPT
                           !.issuesCount.notDone = CastCount(counts),
                           !.notDoneIssues = issues])]

\* an update that replaces the entry of the date by one holding the done
\* fields only
SetDoneReplacing(user, date, counts, issues, codeToBugRatio) ==
    LET entry == [DefaultEntry(date) EXCEPT
                     !.issuesCount.done = CastCount(counts),
                     !.doneIssues = issues,
                     !.codeToBugRatio = codeToBugRatio]
    IN IF HasHistory(user, date)
       THEN [user EXCEPT !.issueHistory[FindHistory(user, date)] = entry]
       ELSE [user EXCEPT !.issueHistory = Append(@, entry)]

\* the document saveDoneIssueCounts hands to user.save()
SetDone(user, date, counts, issues, codeToBugRatio) ==
    IF HasHistory(user, date)
    THEN LET i == FindHistory(user, date) IN
         [user EXCEPT !.issueHistory[i].issuesCount.done = CastCount(counts),
                      !.issueHistory[i].doneIssues = issues,
                      !.issueHistory[i].codeToBugRatio = codeToBugRatio]
    ELSE [user EXCEPT !.issueHistory =
             Append(@, [DefaultEntry(date) EXCEPT
                           !.issuesCount.done = CastCount(counts),
                           !.doneIssues = issues,
                           !.codeToBugRatio = codeToBugRatio])]

ModeOf(v) == IF v \in {"notDone30", "notDoneToday"} THEN "notDone" ELSE "done"

\* an upsert that also puts the performance back to its default
UpsertResettingPerformance(v, user, a) ==
    [(IF ModeOf(v) = "notDone"
      THEN SetNotDone(user, a.date, a.counts, a.issues)
      ELSE SetDone(user, a.date, a.counts, a.issues, a.codeToBugRatio))
     EXCEPT !.currentPerformance = Frac(0, 1)]

\* what the upsert of the pass variant v writes for the arguments a
Upsert(v, user, a) ==
    IF ModeOf(v) = "notDone"
    THEN SetNotDone(user, a.date, a.counts, a.issues)
    ELSE SetDone(user, a.date, a.counts, a.issues, a.codeToBugRatio)

\* user.save() sends the paths the caller changed on its loaded document,
\* not the document: a pushed element is appended to the stored array, a
\* changed field of element i is set at position i of the stored array
Pick(storedValue, loadedValue, updatedValue) ==
    IF updatedValue # loadedValue THEN updatedValue ELSE storedValue

MergeEntry(s, l, u) ==
    [date |-> Pick(s.date, l.date, u.date),
     issuesCount |->
         [notDone |-> Pick(s.issuesCount.notDone, l.issuesCount.notDone,
                           u.issuesCount.notDone),
          done |-> Pick(s.issuesCount.done, l.issuesCount.done,
                        u.issuesCount.done)],
     taskCompletionRate |->
         Pick(s.taskCompletionRate, l.taskCompletionRate, u.taskCompletionRate),
     userStoryCompletionRate |->
         Pick(s.userStoryCompletionRate, l.userStoryCompletionRate,
              u.userStoryCompletionRate),
     overallScore |-> Pick(s.overallScore, l.overallScore, u.overallScore),
     comment |-> Pick(s.comment, l.comment, u.comment),
     codeToBugRatio |-> Pick(s.codeToBugRatio, l.codeToBugRatio, u.codeToBugRatio),
     notDoneIssues |-> Pick(s.notDoneIssues, l.notDoneIssues, u.notDoneIssues),
     doneIssues |-> Pick(s.doneIssues, l.doneIssues, u.doneIssues)]

\* a save of the changed paths that is never conditioned on the version
PersistUnconditioned(stored, loaded, updated, where, inc) ==
    IF ~stored.exists
    THEN [rejected |-> TRUE, doc |-> stored]
    ELSE LET n == Len(loaded.issueHistory)
         IN [rejected |-> FALSE,
             doc |-> [stored EXCEPT
                         !.issueHistory =
                             [i \in 1..Len(stored.issueHistory) |->
                                 IF i <= n
                                 THEN MergeEntry(stored.issueHistory[i],
                                                 loaded.issueHistory[i],
                                                 updated.issueHistory[i])
                                 ELSE stored.issueHistory[i]]
                               \o SubSeq(updated.issueHistory, n + 1,
                                         Len(updated.issueHistory)),
                         !.currentPerformance =
                             Pick(@, loaded.currentPerformance,
                                  updated.currentPerformance),
                         !.versionKey = IF inc THEN @ + 1 ELSE @]]

\* the outcome of user.save() on the document `loaded` after the caller
\* changed it into `updated`, against the document now stored.  `where`:
\* the update is conditioned on the stored version key being the loaded
\* one (a field of an array element is set); `inc`: the update increments
\* the version key (an array is pushed to or set).  A save whose condition
\* fails, or whose document is gone, rejects.
Persist(stored, loaded, updated, where, inc) ==
    IF ~stored.exists \/ (where /\ stored.versionKey # loaded.versionKey)
    THEN [rejected |-> TRUE, doc |-> stored]
    ELSE LET n == Len(loaded.issueHistory)
             pushed == SubSeq(updated.issueHistory, n + 1,
                              Len(updated.issueHistory))
             kept == [i \in 1..Len(stored.issueHistory) |->
                         IF i <= n
                         THEN MergeEntry(stored.issueHistory[i],
                                         loaded.issueHistory[i],
                                         updated.issueHistory[i])
                         ELSE stored.issueHistory[i]]
         IN [rejected |-> FALSE,
             doc |-> [stored EXCEPT
                         !.issueHistory = kept \o pushed,
                         !.currentPerformance =
                             Pick(@, loaded.currentPerformance,
                                  updated.currentPerformance),
                         !.isArchive =
                             Pick(@, loaded.isArchive, updated.isArchive),
                         !.versionKey = IF inc THEN @ + 1 ELSE @]]

\* save...IssueCounts from the loaded document on: the update of the found
\* element sets array fields of it (conditioned, incrementing); the push is
\* unconditioned and increments
SaveUpsert(v, stored, loaded, a) ==
    Persist(stored, loaded, Upsert(v, loaded, a), HasHistory(loaded, a.date), TRUE)

-----------------------------------------------------------------------------
(* The scorer: getAllUserMetrics *)

\* a comment is the sequence of the messages concatenated into it
TargetMessage(target, completed) ==
    [kind |-> "target", a |-> target, b |-> completed]

UnmatchedMessage(n) == [kind |-> "unmatched", a |-> n, b |-> 0]

\* a filter the wrong way round: the not-done ids absent from the done ids
UnmatchedNotDoneIssueIds(entry) ==
    SelectSeq([i \in 1..Len(entry.notDoneIssues) |-> entry.notDoneIssues[i].issueId],
              LAMBDA notDoneId :
                  \A j \in 1..Len(entry.doneIssues) :
                      entry.doneIssues[j].issueId # notDoneId)

\* doneIssueIds.filter((doneId) => !notDoneIssueIds.includes(doneId))
UnmatchedDoneIssueIds(entry) ==
    SelectSeq([i \in 1..Len(entry.doneIssues) |-> entry.doneIssues[i].issueId],
              LAMBDA doneId :
                  \A j \in 1..Len(entry.notDoneIssues) :
                      entry.notDoneIssues[j].issueId # doneId)

\* a rate left as the quotient, not multiplied by 100
CompletionQuotient(done, notDone) ==
    IF notDone > 0 THEN Frac(done, notDone) ELSE Frac(0, 1)

\* let rate = 0; if (notDone > 0) { rate = (done / notDone) * 100 }
CompletionRate(done, notDone) ==
    IF notDone > 0 THEN Frac(done * 100, notDone) ELSE Frac(0, 1)

\* an overshoot test that also fires on equal totals
OvershootOrEqual(counts) ==
    counts.done.Task + counts.done.Bug + counts.done.Story
        >= counts.notDone.Task + counts.notDone.Bug + counts.notDone.Story

\* totalDoneTasksAndBugs + counts.done.Story
\*     > totalNotDoneTasksAndBugs + counts.notDone.Story
Overshoot(counts) ==
    counts.done.Task + counts.done.Bug + counts.done.Story
        > counts.notDone.Task + counts.notDone.Bug + counts.notDone.Story

\* a comment that continues the one stored by the previous run
StoredComment(entry) == entry.comment

\* let comment = ''
EmptyComment(entry) == <<>>

\* a mean that always divides by the two rates
MeanOfBoth(rates) == FracOver(FracSum(rates), 2)

\* nonZeroCompletionRates.reduce((sum, rate) => sum + rate, 0) / length, or 0
MeanOrZero(rates) ==
    IF Len(rates) > 0 THEN FracOver(FracSum(rates), Len(rates)) ELSE Frac(0, 1)

\* a scoring whose overshoot rule writes the comment but leaves the rates
ScoreEntryUnclamped(entry) ==
    LET counts == entry.issuesCount
        totalNotDoneTasksAndBugs == counts.notDone.Task + counts.notDone.Bug
        totalDoneTasksAndBugs == counts.done.Task + counts.done.Bug
        taskCompletionRate ==
            CompletionRate(totalDoneTasksAndBugs, totalNotDoneTasksAndBugs)
        userStoryCompletionRate ==
            CompletionRate(counts.done.Story, counts.notDone.Story)
        comment0 ==
            IF Overshoot(counts)
            THEN <<TargetMessage(totalNotDoneTasksAndBugs + counts.notDone.Story,
                                 totalDoneTasksAndBugs + counts.done.Story)>>
            ELSE EmptyComment(entry)
        unmatched == UnmatchedDoneIssueIds(entry)
        nonZeroCompletionRates ==
            (IF totalNotDoneTasksAndBugs > 0 THEN <<taskCompletionRate>> ELSE <<>>)
              \o (IF counts.notDone.Story > 0
                  THEN <<userStoryCompletionRate>> ELSE <<>>)
    IN [entry EXCEPT !.taskCompletionRate = taskCompletionRate,
                     !.userStoryCompletionRate = userStoryCompletionRate,
                     !.overallScore = MeanOrZero(nonZeroCompletionRates),
                     !.comment = IF Len(unmatched) > 0
                                 THEN Append(comment0, UnmatchedMessage(Len(unmatched)))
                                 ELSE comment0]

\* the body of issueHistory.map: the entry with its derived fields set
ScoreEntry(entry) ==
    LET counts == entry.issuesCount
        totalNotDoneTasksAndBugs == counts.notDone.Task + counts.notDone.Bug
        totalDoneTasksAndBugs == counts.done.Task + counts.done.Bug
        overshoot == Overshoot(counts)
        taskCompletionRate ==
            IF overshoot THEN Frac(100, 1)
            ELSE CompletionRate(totalDoneTasksAndBugs, totalNotDoneTasksAndBugs)
        userStoryCompletionRate ==
            IF overshoot THEN Frac(100, 1)
            ELSE CompletionRate(counts.done.Story, counts.notDone.Story)
        comment0 ==
            IF overshoot
            THEN <<TargetMessage(totalNotDoneTasksAndBugs + counts.notDone.Story,
                                 totalDoneTasksAndBugs + counts.done.Story)>>
            ELSE EmptyComment(entry)
        unmatched == UnmatchedDoneIssueIds(entry)
        comment ==
            IF Len(unmatched) > 0
            THEN Append(comment0, UnmatchedMessage(Len(unmatched)))
            ELSE comment0
        nonZeroCompletionRates ==
            (IF totalNotDoneTasksAndBugs > 0 THEN <<taskCompletionRate>> ELSE <<>>)
              \o (IF counts.notDone.Story > 0
                  THEN <<userStoryCompletionRate>> ELSE <<>>)
    IN [entry EXCEPT !.taskCompletionRate = taskCompletionRate,
                     !.userStoryCompletionRate = userStoryCompletionRate,
                     !.overallScore = MeanOrZero(nonZeroCompletionRates),
                     !.comment = comment]

\* a performance that is the total of the scores
TotalOfScores(scores) == FracSum(scores)

\* metricsByDay.length ? totalScore / metricsByDay.length : 0
CurrentPerformance(scores) == MeanOrZero(scores)

\* the body of users.map up to user.save(): every entry scored, and
\* currentPerformance the mean of the overall scores
\* a scorer that also puts the newest entry first
ScoreUserNewestFirst(user) ==
    LET n == Len(user.issueHistory)
        metricsByDay ==
            [i \in 1..n |-> ScoreEntry(user.issueHistory[n + 1 - i])]
    IN [user EXCEPT
           !.issueHistory = metricsByDay,
           !.currentPerformance =
               CurrentPerformance([i \in 1..n |-> metricsByDay[i].overallScore])]

ScoreUser(user) ==
    LET metricsByDay ==
            [i \in 1..Len(user.issueHistory) |-> ScoreEntry(user.issueHistory[i])]
    IN [user EXCEPT
           !.issueHistory = metricsByDay,
           !.currentPerformance =
               CurrentPerformance([i \in 1..Len(metricsByDay) |->
                                      metricsByDay[i].overallScore])]

\* a scorer save that stores the scored copy as the whole document
SaveScoredWholeDocument(stored, loaded) ==
    IF ~stored.exists
    THEN [rejected |-> TRUE, doc |-> stored]
    ELSE [rejected |-> FALSE,
          doc |-> [ScoreUser(loaded) EXCEPT !.versionKey = stored.versionKey + 1]]

\* the scorer's user.save(): the changed rates, scores and comments are set
\* on their elements (conditioned when there is one, never incrementing)
SaveScored(stored, loaded) ==
    LET scored == ScoreUser(loaded) IN
    Persist(stored, loaded, scored,
            \E i \in 1..Len(loaded.issueHistory) :
                scored.issueHistory[i] # loaded.issueHistory[i],
            FALSE)

-----------------------------------------------------------------------------
(* Spec: passes running concurrently against the users collection *)

TaskIds == {"t1", "t2"}

\* the issues the shards return to the passes of Spec
TaskD1 == JiraIssue("i1", "Task", Str(<<"d1">>), Links(<<>>))

StoryD2 ==
    JiraIssue("i3", "Story", Str(<<"d2">>),
              Links(<<Link("Blocks", LinkedIssue("Bug"), NoIssue)>>))

\* the issue lists a shard returns to the passes of Spec: nothing (the
\* account has no issue on the shard), or one issue on each of two dates
StoreResponses == {<<>>, <<TaskD1, StoryD2>>}

IdleTask ==
    [pc |-> "idle", op |-> "none", accountId |-> "a1",
     r1 |-> "pending", r2 |-> "pending", todo |-> <<>>, user |-> Absent,
     docs |-> [a \in AccountIds |-> Absent], pending |-> {}, saved |-> 0,
     cron |-> FALSE, batch |-> <<>>]

InitStore ==
    /\ users = [a \in AccountIds |-> IF a = "a1" THEN NewUser ELSE Absent]
    /\ task = [t \in TaskIds |-> IdleTask]
    /\ started = 0

\* a wait that ends with the first shard's response
FirstArrived(r1, r2) == r1 = "ok"

\* const [response1, response2] = await Promise.all([...]) has both values
BothArrived(r1, r2) == r1 = "ok" /\ r2 = "ok"

\* no call is running in slot t, and no save it issued is still in flight
Free(t) ==
    /\ task[t].pc \in {"idle", "ok", "error"}
    /\ task[t].pending = {}
    /\ task[t].pc = "ok" => task[t].batch = <<>>

\* a controller route or a scheduler loop calls count...(accountId); the
\* call runs in the first free slot
Start(t, v, a) ==
    /\ Free(t)
    /\ t = "t1" \/ ~Free("t1")
    /\ started < MaxOps
    /\ started' = started + 1
    /\ task' = [task EXCEPT ![t] =
                   [IdleTask EXCEPT !.pc = "fetch", !.op = v, !.accountId = a]]
    /\ UNCHANGED <<users, cvars, dvars>>

\* the search of one shard answers
Respond(t, shard) ==
    /\ task[t].pc = "fetch"
    /\ \/ /\ shard = 1
          /\ task[t].r1 = "pending"
          /\ task' = [task EXCEPT ![t].r1 = "ok"]
       \/ /\ shard = 2
          /\ task[t].r2 = "pending"
          /\ task' = [task EXCEPT ![t].r2 = "ok"]
    /\ UNCHANGED <<users, started, cvars, dvars>>

\* the search of one shard fails: Promise.all rejects, the catch block throws
Reject(t, shard) ==
    /\ task[t].pc = "fetch"
    /\ \/ /\ shard = 1
          /\ task[t].r1 = "pending"
          /\ task' = [task EXCEPT ![t].r1 = "failed", ![t].pc = "error"]
       \/ /\ shard = 2
          /\ task[t].r2 = "pending"
          /\ task' = [task EXCEPT ![t].r2 = "failed", ![t].pc = "error"]
    /\ UNCHANGED <<users, started, cvars, dvars>>

\* both responses are in: read their issue lists, combine, classify, and
\* enter the save loop
ClassifyPass(t, issues1, issues2) ==
    /\ task[t].pc = "fetch"
    /\ BothArrived(task[t].r1, task[t].r2)
    /\ LET issues == Combine(issues1, issues2)
           c == Classify(task[t].op, issues)
           todo == SaveArgs(task[t].op, issues, c.buckets)
       IN task' = [task EXCEPT
                      ![t].pc = IF c.threw THEN "error"
                                ELSE IF todo = <<>> THEN "ok" ELSE "load",
                      ![t].todo = IF c.threw THEN <<>> ELSE todo]
    /\ UNCHANGED <<users, started, cvars, dvars>>

\* a lookup without its filter: findOne() answers the first stored user
LoadFirstUser(t) ==
    /\ task[t].pc = "load"
    /\ LET user == IF \E a \in AccountIds : users[a].exists
                   THEN users[CHOOSE a \in AccountIds :
                                  /\ users[a].exists
                                  /\ \A b \in AccountIds :
                                         users[b].exists => a = "a1" \/ b # "a1"]
                   ELSE Absent
       IN task' = IF UserNotFound(user)
                  THEN [task EXCEPT ![t].pc = "error", ![t].todo = <<>>]
                  ELSE [task EXCEPT ![t].pc = "save", ![t].user = user]
    /\ UNCHANGED <<users, started, cvars, dvars>>

\* save...IssueCounts: findOne, and the throw when there is no such user
LoadUser(t) ==
    /\ task[t].pc = "load"
    /\ LET user == FindOne(users, task[t].accountId) IN
       task' = IF UserNotFound(user)
               THEN [task EXCEPT ![t].pc = "error", ![t].todo = <<>>]
               ELSE [task EXCEPT ![t].pc = "save", ![t].user = user]
    /\ UNCHANGED <<users, started, cvars, dvars>>

\* save...IssueCounts: update or push the entry and user.save(); next
\* date, or the throw when the save is refused for its version
SaveUser(t) ==
    /\ task[t].pc = "save"
    /\ LET acc == task[t].accountId
           r == SaveUpsert(task[t].op, users[acc], task[t].user, Head(task[t].todo))
       IN IF r.rejected
          THEN /\ users' = users
               /\ task' = [task EXCEPT ![t].pc = "error", ![t].user = Absent,
                                       ![t].todo = <<>>]
          ELSE /\ users' = [users EXCEPT ![acc] = r.doc]
               /\ task' = [task EXCEPT
                              ![t].todo = Tail(@),
                              ![t].saved = @ + 1,
                              ![t].user = Absent,
                              ![t].pc = IF Tail(task[t].todo) = <<>>
                                        THEN "ok" ELSE "load"]
    /\ UNCHANGED <<started, cvars, dvars>>

\* a save loop that catches the failure of one date and goes on to the next
SaveRejectsAndGoesOn(t) ==
    /\ task[t].pc = "save"
    /\ task' = [task EXCEPT ![t].user = Absent,
                            ![t].todo = Tail(@),
                            ![t].pc = IF Tail(task[t].todo) = <<>>
                                      THEN "ok" ELSE "load"]
    /\ UNCHANGED <<users, started, cvars, dvars>>

\* user.save() rejects for a failure of the store: the upsert throws and
\* the pass ends
SaveRejects(t) ==
    /\ task[t].pc = "save"
    /\ task' = [task EXCEPT ![t].pc = "error", ![t].user = Absent,
                            ![t].todo = <<>>]
    /\ UNCHANGED <<users, started, cvars, dvars>>

\* the metrics route or the scheduler calls getAllUserMetrics
StartMetrics(t) ==
    /\ Free(t)
    /\ t = "t1" \/ ~Free("t1")
    /\ started < MaxOps
    /\ started' = started + 1
    /\ task' = [task EXCEPT ![t] = [IdleTask EXCEPT !.pc = "find", !.op = "metrics"]]
    /\ UNCHANGED <<users, cvars, dvars>>

\* getAllUserMetrics: find({}) answers; every loaded user is scored and
\* its save is issued
FindUsers(t) ==
    /\ task[t].pc = "find"
    /\ LET found == {a \in AccountIds : users[a].exists} IN
       task' = [task EXCEPT
                   ![t].docs = [a \in AccountIds |->
                                   IF a \in found THEN users[a] ELSE Absent],
                   ![t].pending = found,
                   ![t].pc = IF found = {} THEN "ok" ELSE "saving"]
    /\ UNCHANGED <<users, started, cvars, dvars>>

\* getAllUserMetrics: the save of one scored user completes, or is refused
\* for its version.  The first refusal rejects Promise.all and the catch
\* block throws; the saves of the other users are issued already and still
\* complete.
SaveMetrics(t, a) ==
    /\ task[t].pc \in {"saving", "error"}
    /\ a \in task[t].pending
    /\ LET r == SaveScored(users[a], task[t].docs[a]) IN
       IF r.rejected
       THEN /\ users' = users
            /\ task' = [task EXCEPT
                           ![t].docs[a] = Absent,
                           ![t].pending = @ \ {a},
                           ![t].pc = "error"]
       ELSE /\ users' = [users EXCEPT ![a] = r.doc]
            /\ task' = [task EXCEPT
                           ![t].docs[a] = Absent,
                           ![t].pending = @ \ {a},
                           ![t].saved = @ + 1,
                           ![t].pc = IF task[t].pc = "error" THEN "error"
                                     ELSE IF task[t].pending = {a} THEN "ok"
                                     ELSE "saving"]
    /\ UNCHANGED <<started, cvars, dvars>>

\* getAllUserMetrics: the save of one user rejects for a failure of the
\* store; Promise.all rejects and the catch block throws
MetricsSaveRejects(t, a) ==
    /\ task[t].pc \in {"saving", "error"}
    /\ a \in task[t].pending
    /\ task' = [task EXCEPT
                   ![t].docs[a] = Absent,
                   ![t].pending = @ \ {a},
                   ![t].pc = "error"]
    /\ UNCHANGED <<users, started, cvars, dvars>>

Next ==
    \/ \E t \in TaskIds, v \in Variants, a \in AccountIds : Start(t, v, a)
    \/ \E t \in TaskIds : StartMetrics(t)
    \/ \E t \in TaskIds : FindUsers(t)
    \/ \E t \in TaskIds, a \in AccountIds : SaveMetrics(t, a)
    \/ \E t \in TaskIds, a \in AccountIds : MetricsSaveRejects(t, a)
    \/ \E t \in TaskIds, shard \in {1, 2} : Respond(t, shard)
    \/ \E t \in TaskIds, shard \in {1, 2} : Reject(t, shard)
    \/ \E t \in TaskIds, issues1 \in StoreResponses, issues2 \in StoreResponses :
          ClassifyPass(t, issues1, issues2)
    \/ \E t \in TaskIds : LoadUser(t)
    \/ \E t \in TaskIds : SaveUser(t)
    \/ \E t \in TaskIds : SaveRejects(t)

-----------------------------------------------------------------------------
(* SpecDetails: getUserDetails *)

ReqIds == {"q1", "q2"}

\* how one GET ends: a 2xx response, an error carrying a response with a
\* status, or an error without any response (no connection, timeout)
Outcomes == {"ok", "s400", "s404", "s500", "noResponse"}

NoData == [from |-> 0, accountId |-> "none"]

IdleReq ==
    [pc |-> "idle", accountId |-> "none", contacted |-> <<>>,
     status1 |-> "none", status2 |-> "none", result |-> "none", data |-> NoData]

InitDetails == req = [q \in ReqIds |-> IdleReq]

\* a test that takes every error status for a 404
IsAnyErrorStatus(outcome) == outcome \in {"s400", "s404", "s500"}

\* error.response && error.response.status === 404
IsNotFound(outcome) == outcome = "s404"

\* error.response && error.response.status === 400
IsBadRequest(outcome) == outcome = "s400"

\* the catch block of the first GET, when it does not fall back
FirstFailure(outcome) ==
    IF IsBadRequest(outcome) THEN "BadRequest" ELSE "Internal"

\* a second catch block that maps statuses the way the first one does
SecondFailureLikeFirst(outcome) ==
    IF IsBadRequest(outcome) THEN "BadRequest" ELSE "Internal"

\* the catch block of the second GET
SecondFailure(outcome) ==
    IF outcome # "noResponse" /\ IsBadRequest(outcome) THEN "BadRequest"
    ELSE IF outcome # "noResponse" /\ IsNotFound(outcome) THEN "NotFound"
    ELSE "Internal"

\* getUserDetails(accountId): the GET to the first base URL is sent
Call(q, a) ==
    /\ req[q].pc = "idle"
    /\ req' = [req EXCEPT ![q] =
                  [IdleReq EXCEPT !.pc = "await1", !.accountId = a,
                                  !.contacted = <<1>>]]
    /\ UNCHANGED <<cvars, svars>>

\* the first GET ends: return its data, fall back to the second base URL
\* on 404, or throw
Answer1(q, outcome) ==
    /\ req[q].pc = "await1"
    /\ req' = [req EXCEPT ![q] =
          IF outcome = "ok"
          THEN [@ EXCEPT !.pc = "done", !.status1 = outcome, !.result = "data",
                         !.data = [from |-> 1, accountId |-> req[q].accountId]]
          ELSE IF IsNotFound(outcome)
          THEN [@ EXCEPT !.pc = "await2", !.status1 = outcome,
                         !.contacted = Append(@, 2)]
          ELSE [@ EXCEPT !.pc = "done", !.status1 = outcome,
                         !.result = FirstFailure(outcome)]]
    /\ UNCHANGED <<cvars, svars>>

\* the second GET ends: return its data or throw
Answer2(q, outcome) ==
    /\ req[q].pc = "await2"
    /\ req' = [req EXCEPT ![q] =
          IF outcome = "ok"
          THEN [@ EXCEPT !.pc = "done", !.status2 = outcome, !.result = "data",
                         !.data = [from |-> 2, accountId |-> req[q].accountId]]
          ELSE [@ EXCEPT !.pc = "done", !.status2 = outcome,
                         !.result = SecondFailure(outcome)]]
    /\ UNCHANGED <<cvars, svars>>

NextDetails ==
    \/ \E q \in ReqIds, a \in AccountIds : Call(q, a)
    \/ \E q \in ReqIds, outcome \in Outcomes : Answer1(q, outcome)
    \/ \E q \in ReqIds, outcome \in Outcomes : Answer2(q, outcome)

-----------------------------------------------------------------------------
(* SpecClassify: the classifier on every pair of shard responses *)

InitClassify ==
    /\ cpc = "fetched"
    /\ response1 \in SeqsUpTo(Catalogue, MaxShardLen)
    /\ response2 \in SeqsUpTo(Catalogue, MaxShardLen)
    /\ combined = <<>>
    /\ variant = "none"
    /\ classified = [threw |-> FALSE, buckets |-> <<>>]

IdleClassify ==
    /\ cpc = "idle"
    /\ response1 = <<>>
    /\ response2 = <<>>
    /\ combined = <<>>
    /\ variant = "none"
    /\ classified = [threw |-> FALSE, buckets |-> <<>>]

\* the spread of both responses into one list
Merge ==
    /\ cpc = "fetched"
    /\ cpc' = "merged"
    /\ combined' = Combine(response1, response2)
    /\ UNCHANGED <<response1, response2, variant, classified, svars, dvars>>

\* countNotDoneIssues: its forEach loop over the combined list
countNotDoneIssues ==
    /\ cpc = "merged"
    /\ cpc' = "classified"
    /\ variant' = "notDone30"
    /\ classified' = Classify("notDone30", combined)
    /\ UNCHANGED <<response1, response2, combined, svars, dvars>>

\* countDoneIssues: its forEach loop over the combined list
countDoneIssues ==
    /\ cpc = "merged"
    /\ cpc' = "classified"
    /\ variant' = "done30"
    /\ classified' = Classify("done30", combined)
    /\ UNCHANGED <<response1, response2, combined, svars, dvars>>

\* countNotDoneIssuesForToday: its forEach loop over the combined list
countNotDoneIssuesForToday ==
    /\ cpc = "merged"
    /\ cpc' = "classified"
    /\ variant' = "notDoneToday"
    /\ classified' = Classify("notDoneToday", combined)
    /\ UNCHANGED <<response1, response2, combined, svars, dvars>>

\* countDoneIssuesForToday: its for...of loop over the combined list
countDoneIssuesForToday ==
    /\ cpc = "merged"
    /\ cpc' = "classified"
    /\ variant' = "doneToday"
    /\ classified' = Classify("doneToday", combined)
    /\ UNCHANGED <<response1, response2, combined, svars, dvars>>

NextClassify ==
    \/ Merge
    \/ countNotDoneIssues
    \/ countDoneIssues
    \/ countNotDoneIssuesForToday
    \/ countDoneIssuesForToday

-----------------------------------------------------------------------------
(* SpecScore: the scorer on histories that the count passes have stored *)

\* a pass run to its end with no other operation in between: every upsert
\* of its save loop loads the document the previous one stored
RECURSIVE ApplyUpserts(_, _, _)
ApplyUpserts(doc, v, todo) ==
    IF todo = <<>> THEN doc
    ELSE ApplyUpserts(SaveUpsert(v, doc, doc, Head(todo)).doc, v, Tail(todo))

RunPass(doc, v, issues1, issues2) ==
    LET issues == Combine(issues1, issues2) IN
    ApplyUpserts(doc, v, SaveArgs(v, issues, Classify(v, issues).buckets))

\* the identifiers of the issues of a type, in the order a shard lists them
IssueIdsOf(t) ==
    CASE t = "Task"  -> <<"t1", "t2", "t3", "t4">>
      [] t = "Bug"   -> <<"b1">>
      [] t = "Story" -> <<"s1", "s2">>

IssuesOfType(t, n, date) ==
    [i \in 1..n |-> JiraIssue(IssueIdsOf(t)[i], t, Str(<<date>>), Links(<<>>))]

\* a shard's answer holding load.Task tasks, load.Bug bugs and load.Story
\* stories due on the date
IssuesOf(load, date) ==
    IssuesOfType("Task", load.Task, date)
      \o IssuesOfType("Bug", load.Bug, date)
      \o IssuesOfType("Story", load.Story, date)

Load(t, b, s) == [Task |-> t, Bug |-> b, Story |-> s]

Loads ==
    {Load(0, 0, 0), Load(1, 0, 0), Load(2, 0, 0), Load(0, 0, 1),
     Load(4, 1, 2), Load(3, 1, 1), Load(1, 0, 2)}

\* what the shards hold for one date: the open issues of the morning on
\* shard A, the done issues of the evening on shard A and on shard B (the
\* shards number their issues independently: the same id on both)
DayInputs ==
    [notDone : Loads, doneA : Loads, doneB : {Load(0, 0, 0), Load(1, 0, 0)}]

\* a second date carries one of a few of them
LaterDayInputs ==
    [notDone : {Load(1, 0, 0), Load(4, 1, 2)},
     doneA : {Load(0, 0, 0), Load(1, 0, 0), Load(2, 0, 0), Load(3, 1, 1)},
     doneB : {Load(0, 0, 0)}]

ScoreDates == <<"d1", "d2">>

ScoreInputs ==
    UNION {{h \in [1..k -> DayInputs] : \A i \in 2..k : h[i] \in LaterDayInputs} :
           k \in 0..Len(ScoreDates)}

RECURSIVE IssuesOfDays(_, _)
IssuesOfDays(h, part) ==
    IF h = <<>> THEN <<>>
    ELSE IssuesOfDays(SubSeq(h, 1, Len(h) - 1), part)
           \o IssuesOf(h[Len(h)][part], ScoreDates[Len(h)])

\* the document of a new user after countNotDoneIssues and then
\* countDoneIssues ran on the inputs h
StoredAfterPasses(h) ==
    RunPass(RunPass(NewUser, "notDone30", IssuesOfDays(h, "notDone"), <<>>),
            "done30", IssuesOfDays(h, "doneA"), IssuesOfDays(h, "doneB"))

InitScore ==
    /\ users \in {[a \in AccountIds |->
                      IF a = "a1" THEN StoredAfterPasses(h) ELSE Absent] :
                  h \in ScoreInputs}
    /\ task = [t \in TaskIds |-> IdleTask]
    /\ started = 0

NextScore ==
    \/ \E t \in TaskIds : StartMetrics(t)
    \/ \E t \in TaskIds : FindUsers(t)
    \/ \E t \in TaskIds, a \in AccountIds : SaveMetrics(t, a)
    \/ \E t \in TaskIds, a \in AccountIds : MetricsSaveRejects(t, a)

\* every stored history, before any scorer has run
AllHistories == InitScore /\ IdleClassify /\ InitDetails

SpecScore == AllHistories /\ [][NextScore]_vars

-----------------------------------------------------------------------------
(* SpecBatch: the scheduler's jobs on a collection of two users *)

\* a stored user whose history the scorer has something to say about
SecondUser == RunPass(NewUser, "done30", <<TaskD1, StoryD2>>, <<>>)

StoredAtStart(a) == IF a = "a1" THEN NewUser ELSE SecondUser

InitAccounts ==
    /\ users = [a \in AccountIds |-> StoredAtStart(a)]
    /\ task = [t \in TaskIds |-> IdleTask]
    /\ started = 0

\* the orders in which find() may return the users
Orders(found) ==
    {o \in [1..Cardinality(found) -> found] :
        \A i, j \in 1..Cardinality(found) : o[i] = o[j] => i = j}

\* a cron expression fires: update...IssueHistory... starts.  The four
\* expressions are minutes apart: the jobs run one at a time.
StartBatch(t, v) ==
    /\ Free(t)
    /\ t = "t1"
    /\ started < MaxOps
    /\ started' = started + 1
    /\ task' = [task EXCEPT ![t] =
                   [IdleTask EXCEPT !.pc = "findAll", !.op = v, !.cron = TRUE]]
    /\ UNCHANGED <<users, cvars, dvars>>

\* const users = await this.userModel.find().exec(), and the first turn of
\* for (const user of users) { await this.count...(user.accountId) }
FindAll(t, order) ==
    /\ task[t].pc = "findAll"
    /\ order \in Orders({a \in AccountIds : users[a].exists})
    /\ task' = IF order = <<>>
               THEN [task EXCEPT ![t].pc = "ok"]
               ELSE [task EXCEPT ![t].pc = "fetch",
                                 ![t].accountId = Head(order),
                                 ![t].batch = Tail(order)]
    /\ UNCHANGED <<users, started, cvars, dvars>>

\* the awaited count...(accountId) returned: the next turn of the loop.  A
\* call that threw left the loop for the catch block of the job.
NextAccount(t) ==
    /\ task[t].pc = "ok"
    /\ task[t].batch # <<>>
    /\ task' = [task EXCEPT ![t].pc = "fetch",
                            ![t].accountId = Head(task[t].batch),
                            ![t].batch = Tail(task[t].batch),
                            ![t].r1 = "pending",
                            ![t].r2 = "pending"]
    /\ UNCHANGED <<users, started, cvars, dvars>>

NextBatch ==
    \/ \E t \in TaskIds, v \in Variants : StartBatch(t, v)
    \/ \E t \in TaskIds, order \in UNION {[1..n -> AccountIds] : n \in 0..2} :
          FindAll(t, order)
    \/ \E t \in TaskIds : NextAccount(t)
    \/ \E t \in TaskIds, shard \in {1, 2} : Respond(t, shard)
    \/ \E t \in TaskIds, shard \in {1, 2} : Reject(t, shard)
    \/ \E t \in TaskIds, issues1 \in StoreResponses, issues2 \in StoreResponses :
          ClassifyPass(t, issues1, issues2)
    \/ \E t \in TaskIds : LoadUser(t)
    \/ \E t \in TaskIds : SaveUser(t)
    \/ \E t \in TaskIds : SaveRejects(t)

\* two users stored, no job started yet
BeforeJobs == InitAccounts /\ IdleClassify /\ InitDetails

SpecBatch == BeforeJobs /\ [][NextBatch]_vars

-----------------------------------------------------------------------------
(* SpecAccounts: calls for either of two stored users, and the scorer *)

\* the calls of the first slot are for one user, those of the second for
\* the other
AccountOf(t) == IF t = "t1" THEN "a1" ELSE "a2"

NextAccounts ==
    \/ \E t \in TaskIds, v \in Variants : Start(t, v, AccountOf(t))
    \/ \E t \in TaskIds : StartMetrics(t)
    \/ \E t \in TaskIds : FindUsers(t)
    \/ \E t \in TaskIds, a \in AccountIds : SaveMetrics(t, a)
    \/ \E t \in TaskIds, a \in AccountIds : MetricsSaveRejects(t, a)
    \/ \E t \in TaskIds, shard \in {1, 2} : Respond(t, shard)
    \/ \E t \in TaskIds, shard \in {1, 2} : Reject(t, shard)
    \/ \E t \in TaskIds, issues1 \in StoreResponses, issues2 \in StoreResponses :
          ClassifyPass(t, issues1, issues2)
    \/ \E t \in TaskIds : LoadUser(t)
    \/ \E t \in TaskIds : SaveUser(t)
    \/ \E t \in TaskIds : SaveRejects(t)

\* two users stored, no call made yet
BeforeCalls == InitAccounts /\ IdleClassify /\ InitDetails

SpecAccounts == BeforeCalls /\ [][NextAccounts]_vars

-----------------------------------------------------------------------------
(* SpecRatio: the done passes on issues that carry links, from the merged  *)
(* list to the stored entries                                              *)

BlocksABug == Link("Blocks", LinkedIssue("Bug"), NoIssue)

\* the done issues, with their links, that the shards can return
LinkCatalogue ==
    { JiraIssue("k1", "Task",  Str(<<"d1">>), Links(<<BlocksABug, BlocksABug>>)),
      JiraIssue("k2", "Story", Str(<<"d1">>), Links(<<>>)),
      JiraIssue("k3", "Bug",   Str(<<"d1">>),
                Links(<<Link("Relates", NoIssue, LinkedIssue("Bug"))>>)),
      JiraIssue("k4", "Task",  Str(<<"d1">>),
                Links(<<Link("Blocks", LinkedIssue("Task"), LinkedIssue("Bug"))>>)),
      JiraIssue("k5", "Story", Str(<<"d2">>),
                Links(<<Link("Relates", LinkedIssue("Bug"), NoIssue)>>)),
      JiraIssue("k6", "Bug",   Str(<<"d2">>), Links(<<BlocksABug>>)),
      JiraIssue("k7", "Task",  Str(<<"d1">>), NoLinks) }

\* the date that new Date().toLocaleDateString('en-CA', ...) gives
Today == <<"d1">>

\* the search 'status=Done AND duedate=${today}' answers with issues due
\* today only
DueToday(issues) ==
    \A i \in 1..Len(issues) :
        ~issues[i].duedate.null /\ SplitTFirst(issues[i].duedate.s) = Today

InitRatio ==
    /\ cpc = "fetched"
    /\ response1 \in SeqsUpTo(LinkCatalogue, MaxShardLen)
    /\ response2 \in SeqsUpTo(LinkCatalogue, 1)
    /\ combined = <<>>
    /\ variant = "none"
    /\ classified = [threw |-> FALSE, buckets |-> <<>>]
    /\ users = [a \in AccountIds |-> IF a = "a1" THEN NewUser ELSE Absent]
    /\ task = [t \in TaskIds |-> IdleTask]
    /\ started = 0

\* a done pass from the merged list on, nothing else running: the loop over
\* the issues, then the save loop, one upsert per date; a throw in either
\* is caught and nothing, or nothing more, is stored
RunDonePass(v) ==
    /\ cpc = "merged"
    /\ v = "doneToday" => DueToday(combined)
    /\ variant' = v
    /\ classified' = Classify(v, combined)
    /\ cpc' = IF classified'.threw THEN "error" ELSE "saved"
    /\ users' = IF classified'.threw THEN users
                ELSE [users EXCEPT !["a1"] =
                         ApplyUpserts(@, v, SaveArgs(v, combined,
                                                     classified'.buckets))]
    /\ UNCHANGED <<response1, response2, combined, task, started, dvars>>

NextRatio ==
    \/ Merge
    \/ \E v \in {"done30", "doneToday"} : RunDonePass(v)

\* every pair of shard responses to a done search, nothing stored yet
AllDoneResponses == InitRatio /\ InitDetails

SpecRatio == AllDoneResponses /\ [][NextRatio]_vars

-----------------------------------------------------------------------------
(* SpecUsers: archiveUser and deleteUser of UserService on two stored users *)

\* a test that never finds the user archived
NeverArchived(user) == FALSE

\* if (user.isArchive) throw new ConflictException(...)
IsArchived(user) == user.isArchive

\* user.isArchive = true; await user.save(): a top-level path is set,
\* unconditioned
SaveArchived(stored, loaded) ==
    Persist(stored, loaded, [loaded EXCEPT !.isArchive = TRUE], FALSE, FALSE)

\* a delete without its filter: every document goes
DeleteEvery(collection, accountId) == [a \in AccountIds |-> Absent]

\* this.userModel.findOneAndDelete({ accountId })
FindOneAndDelete(collection, accountId) ==
    [collection EXCEPT ![accountId] = Absent]

UserCallEnded(t) ==
    task[t].pc \in {"idle", "ok", "notFound", "conflict", "error"}

\* the users controller calls archiveUser or deleteUser
StartUserCall(t, op, a) ==
    /\ UserCallEnded(t)
    /\ t = "t1" \/ ~UserCallEnded("t1")
    /\ started < MaxOps
    /\ started' = started + 1
    /\ task' = [task EXCEPT ![t] =
                   [IdleTask EXCEPT !.pc = "find", !.op = op, !.accountId = a]]
    /\ UNCHANGED <<users, cvars, dvars>>

\* archiveUser: findOne, the NotFoundException, the ConflictException
FindToArchive(t) ==
    /\ task[t].op = "archive"
    /\ task[t].pc = "find"
    /\ LET user == FindOne(users, task[t].accountId) IN
       task' = IF UserNotFound(user) THEN [task EXCEPT ![t].pc = "notFound"]
               ELSE IF IsArchived(user) THEN [task EXCEPT ![t].pc = "conflict"]
               ELSE [task EXCEPT ![t].pc = "save", ![t].user = user]
    /\ UNCHANGED <<users, started, cvars, dvars>>

\* archiveUser: user.save() answers; a save that finds its document gone
\* rejects, and the catch block throws the internal error
ArchiveSave(t) ==
    /\ task[t].op = "archive"
    /\ task[t].pc = "save"
    /\ LET acc == task[t].accountId
           r == SaveArchived(users[acc], task[t].user)
       IN IF r.rejected
          THEN /\ users' = users
               /\ task' = [task EXCEPT ![t].pc = "error", ![t].user = Absent]
          ELSE /\ users' = [users EXCEPT ![acc] = r.doc]
               /\ task' = [task EXCEPT ![t].pc = "ok", ![t].user = Absent,
                                       ![t].saved = @ + 1]
    /\ UNCHANGED <<started, cvars, dvars>>

\* archiveUser: user.save() rejects for a failure of the store
ArchiveSaveRejects(t) ==
    /\ task[t].op = "archive"
    /\ task[t].pc = "save"
    /\ task' = [task EXCEPT ![t].pc = "error", ![t].user = Absent]
    /\ UNCHANGED <<users, started, cvars, dvars>>

\* deleteUser: findOne, and the NotFoundException
FindToDelete(t) ==
    /\ task[t].op = "delete"
    /\ task[t].pc = "find"
    /\ LET existingUser == FindOne(users, task[t].accountId) IN
       task' = IF UserNotFound(existingUser)
               THEN [task EXCEPT ![t].pc = "notFound"]
               ELSE [task EXCEPT ![t].pc = "delete"]
    /\ UNCHANGED <<users, started, cvars, dvars>>

\* deleteUser: findOneAndDelete answers (with the document or with null),
\* and the call returns statusCode 200
DeleteFound(t) ==
    /\ task[t].op = "delete"
    /\ task[t].pc = "delete"
    /\ users' = FindOneAndDelete(users, task[t].accountId)
    /\ task' = [task EXCEPT ![t].pc = "ok", ![t].saved = @ + 1]
    /\ UNCHANGED <<started, cvars, dvars>>

\* deleteUser: findOneAndDelete rejects; the catch block throws it on
DeleteRejects(t) ==
    /\ task[t].op = "delete"
    /\ task[t].pc = "delete"
    /\ task' = [task EXCEPT ![t].pc = "error"]
    /\ UNCHANGED <<users, started, cvars, dvars>>

NextUsers ==
    \/ \E t \in TaskIds, op \in {"archive", "delete"}, a \in AccountIds :
          StartUserCall(t, op, a)
    \/ \E t \in TaskIds : FindToArchive(t)
    \/ \E t \in TaskIds : ArchiveSave(t)
    \/ \E t \in TaskIds : ArchiveSaveRejects(t)
    \/ \E t \in TaskIds : FindToDelete(t)
    \/ \E t \in TaskIds : DeleteFound(t)
    \/ \E t \in TaskIds : DeleteRejects(t)

\* two users stored, neither archived, no call made yet
BeforeUserCalls == InitAccounts /\ IdleClassify /\ InitDetails

SpecUsers == BeforeUserCalls /\ [][NextUsers]_vars

-----------------------------------------------------------------------------
(* SpecPass: passes run one after another on two stored users, the shards  *)
(* answering with issues of one date, of two dates, or with none           *)

PassResponses == {<<>>, <<TaskD1>>, <<TaskD1, StoryD2>>}

NextPass ==
    \/ \E v \in Variants, a \in AccountIds : Start("t1", v, a)
    \/ \E shard \in {1, 2} : Respond("t1", shard)
    \/ \E shard \in {1, 2} : Reject("t1", shard)
    \/ \E issues1 \in PassResponses, issues2 \in PassResponses :
          ClassifyPass("t1", issues1, issues2)
    \/ LoadUser("t1")
    \/ SaveUser("t1")
    \/ SaveRejects("t1")

\* two users stored, no pass run yet
BeforePasses == InitAccounts /\ IdleClassify /\ InitDetails

SpecPass == BeforePasses /\ [][NextPass]_vars

\* every pair of shard responses, before any pass has run
AllResponses == InitClassify /\ InitStore /\ InitDetails

SpecClassify == AllResponses /\ [][NextClassify]_vars

\* no getUserDetails call made yet
NoRequest == InitDetails /\ InitStore /\ IdleClassify

SpecDetails == NoRequest /\ [][NextDetails]_vars

Init == InitStore /\ IdleClassify /\ InitDetails

Spec == Init /\ [][Next]_vars

-----------------------------------------------------------------------------
(* Properties of the classifier, under SpecClassify *)

Recognized == {"Task", "Bug", "Story"}

\* an issue carries a due date, and the calendar date of that due date
HasDueDate(issue) == ~issue.duedate.null

CalendarDate(issue) == <<issue.duedate.s[1]>>

\* positions of a list holding an issue due on the date, of the type
DueOn(issues, date) ==
    {i \in 1..Len(issues) : HasDueDate(issues[i]) /\ CalendarDate(issues[i]) = date}

DueOnOfType(issues, date, type) ==
    {i \in DueOn(issues, date) : issues[i].issuetype = type}

Buckets == classified.buckets

Produced == cpc = "classified" /\ ~classified.threw

RECURSIVE SumCounts(_)
SumCounts(buckets) ==
    IF buckets = <<>> THEN 0
    ELSE Head(buckets).counts.Task + Head(buckets).counts.Bug
             + Head(buckets).counts.Story + SumCounts(Tail(buckets))

\* C6: the list a pass processes is shard A's list followed by shard B's:
\* as long as both together, A's issues first and each shard's order kept;
\* an issue both shards return is listed twice and counted twice, so every
\* date's list and count are the sum of what the two shards hold for it.
C6_MergeIsConcatenation ==
    /\ cpc \in {"merged", "classified"} =>
          /\ Len(combined) = Len(response1) + Len(response2)
          /\ \A i \in 1..Len(response1) : combined[i] = response1[i]
          /\ \A j \in 1..Len(response2) :
                 combined[Len(response1) + j] = response2[j]
    /\ Produced =>
          \A k \in 1..Len(Buckets) :
              /\ Len(Buckets[k].issues) =
                     Cardinality(DueOn(response1, Buckets[k].date))
                         + Cardinality(DueOn(response2, Buckets[k].date))
              /\ \A type \in Recognized :
                     Buckets[k].counts[type] =
                         Cardinality(DueOnOfType(response1, Buckets[k].date, type))
                           + Cardinality(DueOnOfType(response2, Buckets[k].date, type))

\* C6 witness: a classified list in which one dated Task, Bug or Story came
\* from both shards and a different issue came first from shard A.
C6_Witness ==
    /\ Produced
    /\ Len(response1) = 2
    /\ response1[1] # response1[2]
    /\ \E j \in 1..Len(response2) :
           /\ response2[j] = response1[2]
           /\ HasDueDate(response2[j])
           /\ response2[j].issuetype \in Recognized

\* C7: every bucket's count of a type is the number of combined issues due on
\* the bucket's date with that type, no date has two buckets, and the counts
\* of all buckets add up to the number of combined issues that have a due
\* date and a type among Task, Bug and Story.
C7_CountsMatchInput ==
    Produced =>
        /\ \A k \in 1..Len(Buckets) : \A type \in Recognized :
               Buckets[k].counts[type] =
                   Cardinality(DueOnOfType(combined, Buckets[k].date, type))
        /\ \A k, l \in 1..Len(Buckets) :
               Buckets[k].date = Buckets[l].date => k = l
        /\ SumCounts(Buckets) =
               Cardinality({i \in 1..Len(combined) :
                               /\ HasDueDate(combined[i])
                               /\ combined[i].issuetype \in Recognized})

\* C7 witness: a classified list with issues on two dates, an issue of an
\* unrecognized type with a due date and an issue without due date.
C7_Witness ==
    /\ Produced
    /\ Len(Buckets) = 2
    /\ \E i \in 1..Len(combined) :
           HasDueDate(combined[i]) /\ combined[i].issuetype \notin Recognized
    /\ \E i \in 1..Len(combined) : ~HasDueDate(combined[i])
    /\ SumCounts(Buckets) = 2

\* the issues of a list due on the date, in list order
IssuesDueOn(issues, date) ==
    SelectSeq(issues, LAMBDA x : HasDueDate(x) /\ CalendarDate(x) = date)

SameIssue(snapshot, issue) ==
    /\ snapshot.issueId = issue.id
    /\ snapshot.issueType = issue.issuetype
    /\ snapshot.summary = issue.summary
    /\ snapshot.status = issue.status

\* C8: the snapshot list of a date holds exactly the combined issues due on
\* that date, in input order and whatever their type; every date some issue
\* is due on has a list; an issue of another type than Task, Bug, Story is
\* listed without adding to a count; an issue without due date is in no
\* list.
C8_SnapshotsMatchInput ==
    Produced =>
        /\ \A k \in 1..Len(Buckets) :
               LET due == IssuesDueOn(combined, Buckets[k].date) IN
               /\ Len(Buckets[k].issues) = Len(due)
               /\ \A n \in 1..Len(due) : SameIssue(Buckets[k].issues[n], due[n])
               /\ Buckets[k].counts.Task + Buckets[k].counts.Bug
                      + Buckets[k].counts.Story =
                    Cardinality({n \in 1..Len(due) :
                                    due[n].issuetype \in Recognized})
        /\ \A i \in 1..Len(combined) :
               HasDueDate(combined[i]) =>
                   \E k \in 1..Len(Buckets) :
                       Buckets[k].date = CalendarDate(combined[i])
        /\ \A i \in 1..Len(combined) :
               ~HasDueDate(combined[i]) =>
                   \A k \in 1..Len(Buckets) :
                       \A n \in 1..Len(Buckets[k].issues) :
                           Buckets[k].issues[n].issueId # combined[i].id

\* C8 witness: a date's list that holds an issue of an unrecognized type
\* after an issue that is counted, from input that also has an undated issue.
C8_Witness ==
    /\ Produced
    /\ \E i \in 1..Len(combined) : ~HasDueDate(combined[i])
    /\ \E k \in 1..Len(Buckets) :
           /\ Len(Buckets[k].issues) >= 2
           /\ Buckets[k].issues[1].issueType \in Recognized
           /\ Buckets[k].issues[2].issueType \notin Recognized

-----------------------------------------------------------------------------
(* Properties of the upsert and the passes, under Spec *)

\* the entry of a date in a document that has one
EntryFor(doc, date) ==
    doc.issueHistory[CHOOSE i \in 1..Len(doc.issueHistory) :
                         doc.issueHistory[i].date = date]

HasEntryFor(doc, date) ==
    doc.exists /\ \E i \in 1..Len(doc.issueHistory) : doc.issueHistory[i].date = date

\* task t completes a user.save() in this step
Saves(t) == task[t].pc = "save" /\ task'[t].saved = task[t].saved + 1

\* C1: a save of a done upsert leaves issuesCount.notDone and
\* notDoneIssues of every stored entry of the account as they were, the
\* entry of its own date included, and a save of a not-done upsert leaves
\* issuesCount.done, doneIssues and codeToBugRatio of every stored entry as
\* they were; no stored entry goes away.
C1_OtherModeUntouched ==
    [][\A t \in TaskIds :
          Saves(t) =>
              LET old == users[task[t].accountId].issueHistory
                  new == users'[task[t].accountId].issueHistory
              IN /\ Len(new) >= Len(old)
                 /\ \A i \in 1..Len(old) :
                        /\ new[i].date = old[i].date
                        /\ ModeOf(task[t].op) = "done" =>
                              /\ new[i].issuesCount.notDone = old[i].issuesCount.notDone
                              /\ new[i].notDoneIssues = old[i].notDoneIssues
                        /\ ModeOf(task[t].op) = "notDone" =>
                              /\ new[i].issuesCount.done = old[i].issuesCount.done
                              /\ new[i].doneIssues = old[i].doneIssues
                              /\ new[i].codeToBugRatio = old[i].codeToBugRatio]_vars

\* C1 witness: a done upsert is about to save an entry whose not-done
\* fields an earlier not-done upsert has set, and the stored entry of
\* another date already carries the fields of both modes.
C1_Witness ==
    /\ \E t \in TaskIds :
           /\ task[t].pc = "save"
           /\ ModeOf(task[t].op) = "done"
           /\ HasEntryFor(task[t].user, Head(task[t].todo).date)
           /\ EntryFor(task[t].user, Head(task[t].todo).date).notDoneIssues # <<>>
    /\ \E i \in 1..Len(users["a1"].issueHistory) :
           /\ users["a1"].issueHistory[i].notDoneIssues # <<>>
           /\ users["a1"].issueHistory[i].doneIssues # <<>>

\* C2: an upsert applied twice in a row stores the same history as applied
\* once: when an upsert saves the changes it made to the document as it is
\* stored, applying it again, to the document now stored, is accepted and
\* leaves the history as it is (as many entries, the same fields), whether
\* the first application found an entry for the date or pushed one.
C2_UpsertIdempotent ==
    [][\A t \in TaskIds :
          (Saves(t) /\ task[t].user = users[task[t].accountId]) =>
              LET once == users'[task[t].accountId]
                  again == SaveUpsert(task[t].op, once,
                                      FindOne(users', task[t].accountId),
                                      Head(task[t].todo))
              IN /\ ~again.rejected
                 /\ Len(again.doc.issueHistory) = Len(once.issueHistory)
                 /\ again.doc.issueHistory = once.issueHistory]_vars

\* C2 witness: an upsert about to save a document that already holds, for
\* its date, exactly what it writes: the second of two equal upserts.
C2_Witness ==
    \E t \in TaskIds :
        /\ task[t].pc = "save"
        /\ HasEntryFor(task[t].user, Head(task[t].todo).date)
        /\ task[t].user = users[task[t].accountId]
        /\ Upsert(task[t].op, task[t].user, Head(task[t].todo)) = task[t].user
        /\ Head(task[t].todo).issues # <<>>

\* C3: no stored history holds two entries of the same date.
C3_OneEntryPerDate ==
    \A a \in AccountIds :
        users[a].exists =>
            \A i, j \in 1..Len(users[a].issueHistory) :
                users[a].issueHistory[i].date = users[a].issueHistory[j].date
                    => i = j

\* C4: an upsert whose account is not stored ends in the internal error
\* without changing the collection, and no step creates a missing account.
C4_MissingAccountFatal ==
    [][/\ \A t \in TaskIds :
              (/\ task[t].pc = "load"
               /\ ~users[task[t].accountId].exists
               /\ task'[t] # task[t])
                  => task'[t].pc = "error" /\ users' = users
       /\ \A a \in AccountIds : ~users[a].exists => ~users'[a].exists]_vars

\* C4 witness: a pass on the missing account a2 ended in the error after
\* both shards answered, with a2 still missing and a1 holding history.
C4_Witness ==
    /\ ~users["a2"].exists
    /\ users["a1"].issueHistory # <<>>
    /\ \E t \in TaskIds :
           /\ task[t].pc = "error"
           /\ task[t].accountId = "a2"
           /\ task[t].saved = 0
           /\ BothArrived(task[t].r1, task[t].r2)

\* C5: a pass loads or saves only once both shard responses are in, and a
\* pass one of whose shard queries failed has ended in the error with no
\* save made.
C5_NoWriteOnShardFailure ==
    \A t \in TaskIds :
        /\ (task[t].op \in Variants
              /\ (task[t].pc \in {"load", "save"} \/ task[t].saved > 0)) =>
               task[t].r1 = "ok" /\ task[t].r2 = "ok"
        /\ (task[t].r1 = "failed" \/ task[t].r2 = "failed") =>
               task[t].pc = "error" /\ task[t].saved = 0

\* C5 witness: a pass ended in the error because shard B failed after
\* shard A had answered.
C5_Witness ==
    \E t \in TaskIds :
        /\ task[t].pc = "error"
        /\ task[t].r1 = "ok"
        /\ task[t].r2 = "failed"
        /\ task[t].accountId = "a1"

-----------------------------------------------------------------------------
(* Properties of getUserDetails, under SpecDetails *)

\* C9: shard A is queried first and shard B only after shard A answered 404;
\* after any other answer of shard A the call ends without a query to B.
C9_FallbackOnlyOn404 ==
    \A q \in ReqIds :
        /\ req[q].contacted \in {<<>>, <<1>>, <<1, 2>>}
        /\ req[q].pc # "idle" => req[q].contacted[1] = 1
        /\ req[q].contacted = <<1, 2>> <=> req[q].status1 = "s404"
        /\ req[q].status1 \in {"ok", "s400", "s500", "noResponse"} =>
               req[q].pc = "done" /\ req[q].contacted = <<1>>

\* C9 witness: one call ended on shard A's 400 without a query to B while
\* another call went on to B after A's 404.
C9_Witness ==
    /\ req["q1"].pc = "done"
    /\ req["q1"].status1 = "s400"
    /\ req["q1"].contacted = <<1>>
    /\ req["q2"].status1 = "s404"
    /\ req["q2"].contacted = <<1, 2>>

\* C10: a finished call returns A's data when A succeeded and B's data when
\* A answered 404 and B succeeded; it fails with not-found on 404 from both,
\* with bad-request on a 400 from A or from B after A's 404, and with the
\* internal failure on every other failure of A or B.
C10_OutcomeTable ==
    \A q \in ReqIds :
        req[q].pc = "done" =>
            LET a == req[q].status1
                b == req[q].status2
                got == req[q].result
            IN /\ a = "ok" =>
                      /\ got = "data"
                      /\ req[q].data = [from |-> 1, accountId |-> req[q].accountId]
               /\ (a = "s404" /\ b = "ok") =>
                      /\ got = "data"
                      /\ req[q].data = [from |-> 2, accountId |-> req[q].accountId]
               /\ (a = "s404" /\ b = "s404") => got = "NotFound"
               /\ (a = "s400" \/ (a = "s404" /\ b = "s400")) => got = "BadRequest"
               /\ (a \in {"s500", "noResponse"}
                     \/ (a = "s404" /\ b \in {"s500", "noResponse"}))
                      => got = "Internal"
               /\ got # "data" => req[q].data = NoData

\* C10 witness: one call ended not-found after 404 from both shards and
\* another ended bad-request on shard B's 400.
C10_Witness ==
    /\ req["q1"].pc = "done"
    /\ req["q1"].status1 = "s404"
    /\ req["q1"].status2 = "s404"
    /\ req["q1"].result = "NotFound"
    /\ req["q2"].pc = "done"
    /\ req["q2"].status2 = "s400"
    /\ req["q2"].result = "BadRequest"

-----------------------------------------------------------------------------
(* Properties of the scorer, under SpecScore *)

\* a scorer pass has saved the account's document
ScoredBy(t, a) ==
    /\ task[t].op = "metrics"
    /\ task[t].saved > 0
    /\ a \notin task[t].pending
    /\ users[a].exists

Scored(a) == \E t \in TaskIds : ScoredBy(t, a)

NotDoneTB(e) == e.issuesCount.notDone.Task + e.issuesCount.notDone.Bug

DoneTB(e) == e.issuesCount.done.Task + e.issuesCount.done.Bug

NotDoneTotal(e) == NotDoneTB(e) + e.issuesCount.notDone.Story

DoneTotal(e) == DoneTB(e) + e.issuesCount.done.Story

\* the fraction x is n / d * 100
IsPercentage(x, n, d) == x.num * d = 100 * n * x.den

\* the fraction x is the integer n
IsNumber(x, n) == x.num = n * x.den

\* C11: after a scorer pass, on every entry whose done total does not
\* exceed its not-done total, taskCompletionRate is done Tasks+Bugs over
\* not-done Tasks+Bugs times 100, or 0 without not-done Tasks or Bugs, and
\* userStoryCompletionRate is done Stories over not-done Stories times 100,
\* or 0 without not-done Stories; not-done {4,1,2} with done {3,1,1} gives
\* 80, 50 and the overall score 65.
C11_CompletionRates ==
    \A a \in AccountIds :
        Scored(a) =>
            \A i \in 1..Len(users[a].issueHistory) :
                LET e == users[a].issueHistory[i] IN
                DoneTotal(e) <= NotDoneTotal(e) =>
                    /\ IF NotDoneTB(e) > 0
                       THEN IsPercentage(e.taskCompletionRate, DoneTB(e), NotDoneTB(e))
                       ELSE IsNumber(e.taskCompletionRate, 0)
                    /\ IF e.issuesCount.notDone.Story > 0
                       THEN IsPercentage(e.userStoryCompletionRate,
                                         e.issuesCount.done.Story,
                                         e.issuesCount.notDone.Story)
                       ELSE IsNumber(e.userStoryCompletionRate, 0)
                    /\ (/\ e.issuesCount.notDone = [Task |-> 4, Bug |-> 1, Story |-> 2]
                        /\ e.issuesCount.done = [Task |-> 3, Bug |-> 1, Story |-> 1])
                           => /\ IsNumber(e.taskCompletionRate, 80)
                              /\ IsNumber(e.userStoryCompletionRate, 50)
                              /\ IsNumber(e.overallScore, 65)

\* C11 witness: a scored history holds the entry of the scenario, not-done
\* {4,1,2} and done {3,1,1}, with the rate 80, and an entry without not-done
\* Stories.
C11_Witness ==
    /\ Scored("a1")
    /\ \E i \in 1..Len(users["a1"].issueHistory) :
           LET e == users["a1"].issueHistory[i] IN
           /\ e.issuesCount.notDone = [Task |-> 4, Bug |-> 1, Story |-> 2]
           /\ e.issuesCount.done = [Task |-> 3, Bug |-> 1, Story |-> 1]
           /\ e.taskCompletionRate = [num |-> 80, den |-> 1]
    /\ \E i \in 1..Len(users["a1"].issueHistory) :
           LET e == users["a1"].issueHistory[i] IN
           /\ e.issuesCount.notDone.Story = 0
           /\ e.issuesCount.notDone.Task > 0
           /\ DoneTotal(e) <= NotDoneTotal(e)

\* the comment holds a target/completed message
HasTargetMessage(e) ==
    \E k \in 1..Len(e.comment) : e.comment[k].kind = "target"

\* C12: after a scorer pass, an entry whose done total is strictly greater
\* than its not-done total has both rates 100 and a comment that reports
\* the not-done total as the target and the done total as completed; an
\* entry whose done total is equal or smaller has the computed rates and
\* no target/completed message.
C12_OvershootStrict ==
    \A a \in AccountIds :
        Scored(a) =>
            \A i \in 1..Len(users[a].issueHistory) :
                LET e == users[a].issueHistory[i] IN
                IF DoneTotal(e) > NotDoneTotal(e)
                THEN /\ IsNumber(e.taskCompletionRate, 100)
                     /\ IsNumber(e.userStoryCompletionRate, 100)
                     /\ Len(e.comment) >= 1
                     /\ e.comment[1] = [kind |-> "target", a |-> NotDoneTotal(e),
                                        b |-> DoneTotal(e)]
                     /\ \A k \in 2..Len(e.comment) : e.comment[k].kind # "target"
                ELSE /\ ~HasTargetMessage(e)
                     /\ NotDoneTB(e) > 0 =>
                            IsPercentage(e.taskCompletionRate, DoneTB(e), NotDoneTB(e))
                     /\ NotDoneTB(e) = 0 => IsNumber(e.taskCompletionRate, 0)
                     /\ e.issuesCount.notDone.Story > 0 =>
                            IsPercentage(e.userStoryCompletionRate,
                                         e.issuesCount.done.Story,
                                         e.issuesCount.notDone.Story)
                     /\ e.issuesCount.notDone.Story = 0 =>
                            IsNumber(e.userStoryCompletionRate, 0)

\* C12 witness: a scored history holds the entry of the scenario, one
\* not-done Task and two done Tasks, reported as target 1 and completed 2,
\* and an entry of equal totals without a comment.
C12_Witness ==
    /\ Scored("a1")
    /\ \E i \in 1..Len(users["a1"].issueHistory) :
           LET e == users["a1"].issueHistory[i] IN
           /\ e.issuesCount.notDone = [Task |-> 1, Bug |-> 0, Story |-> 0]
           /\ e.issuesCount.done = [Task |-> 2, Bug |-> 0, Story |-> 0]
           /\ e.comment[1] = [kind |-> "target", a |-> 1, b |-> 2]
           /\ e.userStoryCompletionRate = [num |-> 100, den |-> 1]
    /\ \E i \in 1..Len(users["a1"].issueHistory) :
           LET e == users["a1"].issueHistory[i] IN
           /\ DoneTotal(e) = NotDoneTotal(e)
           /\ DoneTotal(e) > 0
           /\ e.comment = <<>>

\* the fraction x is the mean of the fractions y and z
IsMeanOfTwo(x, y, z) ==
    x.num * (2 * y.den * z.den) = x.den * (y.num * z.den + z.num * y.den)

\* C13: after a scorer pass, the overallScore of an entry is the mean of
\* its stored taskCompletionRate, if it has not-done Tasks or Bugs, and its
\* stored userStoryCompletionRate, if it has not-done Stories; it is 0 when
\* it has neither.
C13_OverallScoreMean ==
    \A a \in AccountIds :
        Scored(a) =>
            \A i \in 1..Len(users[a].issueHistory) :
                LET e == users[a].issueHistory[i]
                    tasks == NotDoneTB(e) > 0
                    stories == e.issuesCount.notDone.Story > 0
                IN /\ (tasks /\ stories) =>
                          IsMeanOfTwo(e.overallScore, e.taskCompletionRate,
                                      e.userStoryCompletionRate)
                   /\ (tasks /\ ~stories) => e.overallScore = e.taskCompletionRate
                   /\ (~tasks /\ stories) => e.overallScore = e.userStoryCompletionRate
                   /\ (~tasks /\ ~stories) => IsNumber(e.overallScore, 0)

\* C13 witness: a scored history holds an entry with not-done Tasks only,
\* whose score is its task rate 100, and an entry with nothing not-done,
\* whose rates are 100 and whose score is 0.
C13_Witness ==
    /\ Scored("a1")
    /\ \E i \in 1..Len(users["a1"].issueHistory) :
           LET e == users["a1"].issueHistory[i] IN
           /\ NotDoneTB(e) > 0
           /\ e.issuesCount.notDone.Story = 0
           /\ e.overallScore = [num |-> 100, den |-> 1]
    /\ \E i \in 1..Len(users["a1"].issueHistory) :
           LET e == users["a1"].issueHistory[i] IN
           /\ NotDoneTotal(e) = 0
           /\ e.taskCompletionRate = [num |-> 100, den |-> 1]
           /\ e.overallScore = [num |-> 0, den |-> 1]

NotDoneIds(e) == {e.notDoneIssues[k].issueId : k \in 1..Len(e.notDoneIssues)}

\* the identifiers in doneIssues that notDoneIssues does not hold
UnmatchedIds(e) ==
    {e.doneIssues[k].issueId : k \in 1..Len(e.doneIssues)} \ NotDoneIds(e)

\* the elements of doneIssues whose identifier notDoneIssues does not hold
UnmatchedElements(e) ==
    {k \in 1..Len(e.doneIssues) : e.doneIssues[k].issueId \notin NotDoneIds(e)}

\* the comment of e ends with the unmatched-completions message for n, is
\* otherwise as the overshoot rule leaves it, and holds no such message
\* when n = 0
ReportsUnmatched(e, n) ==
    LET before == IF DoneTotal(e) > NotDoneTotal(e) THEN 1 ELSE 0 IN
    /\ Len(e.comment) = before + (IF n > 0 THEN 1 ELSE 0)
    /\ n > 0 => e.comment[Len(e.comment)] = [kind |-> "unmatched", a |-> n, b |-> 0]
    /\ \A k \in 1..before : e.comment[k].kind # "unmatched"

\* C14 as stated: after a scorer pass, the comment of an entry holds the
\* unmatched-completions message, after any overshoot message, exactly when
\* some identifier of doneIssues is absent from notDoneIssues, and the
\* number in it is the size of the set of those identifiers.
C14_UnmatchedSetSize ==
    \A a \in AccountIds :
        Scored(a) =>
            \A i \in 1..Len(users[a].issueHistory) :
                ReportsUnmatched(users[a].issueHistory[i],
                                 Cardinality(UnmatchedIds(users[a].issueHistory[i])))

\* C14 amended: the number in the message is the number of elements of
\* doneIssues whose identifier is absent from notDoneIssues, an identifier
\* listed twice counting twice.
C14_UnmatchedElementCount ==
    \A a \in AccountIds :
        Scored(a) =>
            \A i \in 1..Len(users[a].issueHistory) :
                ReportsUnmatched(users[a].issueHistory[i],
                                 Cardinality(UnmatchedElements(users[a].issueHistory[i])))

\* C14 witness: a scored history holds an entry whose doneIssues list one
\* unmatched identifier twice (both shards returned an issue with it),
\* reported as 2 after the overshoot message, and an entry with exactly one
\* unmatched done issue, reported as 1.
C14_Witness ==
    /\ Scored("a1")
    /\ \E i \in 1..Len(users["a1"].issueHistory) :
           LET e == users["a1"].issueHistory[i] IN
           /\ Cardinality(UnmatchedIds(e)) = 1
           /\ Cardinality(UnmatchedElements(e)) = 2
           /\ Len(e.comment) = 2
           /\ e.comment[1].kind = "target"
           /\ e.comment[2] = [kind |-> "unmatched", a |-> 2, b |-> 0]
    /\ \E i \in 1..Len(users["a1"].issueHistory) :
           LET e == users["a1"].issueHistory[i] IN
           /\ Cardinality(UnmatchedElements(e)) = 1
           /\ e.comment[Len(e.comment)] = [kind |-> "unmatched", a |-> 1, b |-> 0]

\* the scorer's save of account a, issued by call t, is stored in this step
MetricsSaved(t, a) ==
    /\ task[t].op = "metrics"
    /\ a \in task[t].pending
    /\ a \notin task'[t].pending
    /\ task'[t].saved = task[t].saved + 1

\* the entry as the passes first store it: counts, ratio and issue lists
\* kept, the derived fields at their schema defaults
Unscored(e) ==
    [DefaultEntry(e.date) EXCEPT !.issuesCount = e.issuesCount,
                                 !.codeToBugRatio = e.codeToBugRatio,
                                 !.notDoneIssues = e.notDoneIssues,
                                 !.doneIssues = e.doneIssues]

UnscoredUser(user) ==
    [user EXCEPT !.issueHistory = [i \in 1..Len(user.issueHistory) |->
                                      Unscored(user.issueHistory[i])],
                 !.currentPerformance = NewUser.currentPerformance]

\* C15: a scorer save on a history that a scorer pass has already scored,
\* no upsert in between, leaves the stored document as it is: every rate,
\* score and comment and currentPerformance keep their values; and what any
\* scorer save stores is what scoring gives from the counts and issue lists
\* alone, whatever derived values were stored before.
C15_ScorerDeterminism ==
    [][\A t \in TaskIds, a \in AccountIds :
          MetricsSaved(t, a) =>
              /\ Scored(a) => users'[a] = users[a]
              /\ users'[a] = ScoreUser(UnscoredUser(users[a]))]_vars

\* C15 witness: the scorer has run twice, one run after the other, on a
\* history whose entries carry a comment and non-zero scores
C15_Witness ==
    /\ started = 2
    /\ task["t2"].pc = "idle"
    /\ task["t1"].op = "metrics" /\ task["t1"].pc = "ok" /\ task["t1"].saved = 1
    /\ Len(users["a1"].issueHistory) = 2
    /\ \A i \in 1..2 :
           /\ Len(users["a1"].issueHistory[i].comment) > 0
           /\ users["a1"].issueHistory[i].overallScore.num > 0
    /\ users["a1"].issueHistory[1].comment # users["a1"].issueHistory[2].comment
    /\ users["a1"].currentPerformance.num > 0

OverallScores(a) ==
    [i \in 1..Len(users[a].issueHistory) |-> users[a].issueHistory[i].overallScore]

\* C16: after a scorer pass the account's currentPerformance is the sum of
\* the overallScore of all entries of its issueHistory divided by their
\* number, and 0 when the history is empty.
C16_CurrentPerformanceMean ==
    \A a \in AccountIds :
        Scored(a) =>
            LET n == Len(users[a].issueHistory)
                total == FracSum(OverallScores(a))
                cp == users[a].currentPerformance
            IN IF n = 0 THEN cp.num = 0
               ELSE cp.num * n * total.den = total.num * cp.den

\* C16 witness: a scored account with two entries of different non-zero
\* overall scores, its currentPerformance strictly between them
C16_Witness ==
    /\ Scored("a1")
    /\ Len(users["a1"].issueHistory) = 2
    /\ LET s1 == users["a1"].issueHistory[1].overallScore
           s2 == users["a1"].issueHistory[2].overallScore
           cp == users["a1"].currentPerformance
       IN /\ s1.num > 0
          /\ s1.num * s2.den < s2.num * s1.den
          /\ s1.num * cp.den < cp.num * s1.den
          /\ cp.num * s2.den < s2.num * cp.den

\* C18: an entry stored for an account and a date is stored still after
\* every step of every classification pass and scorer pass, however their
\* loads and saves interleave: no step removes the account, shortens its
\* history or changes the date of a stored entry.
C18_EntriesNeverVanish ==
    [][\A a \in AccountIds :
          users[a].exists =>
              /\ users'[a].exists
              /\ Len(users'[a].issueHistory) >= Len(users[a].issueHistory)
              /\ \A i \in 1..Len(users[a].issueHistory) :
                     users'[a].issueHistory[i].date = users[a].issueHistory[i].date]_vars

\* C18 witness: a classification pass and a scorer pass on the same account
\* have both ended well, the scorer having loaded and saved between the two
\* saves of the pass: the first entry is scored, the second, pushed later,
\* is stored but not yet scored.
C18_Witness ==
    \E t, s \in TaskIds :
        /\ task[t].op \in Variants /\ task[t].pc = "ok" /\ task[t].saved = 2
        /\ task[s].op = "metrics" /\ task[s].pc = "ok" /\ task[s].saved = 1
        /\ Len(users["a1"].issueHistory) = 2
        /\ users["a1"].issueHistory[1].date # users["a1"].issueHistory[2].date
        /\ ScoreEntry(users["a1"].issueHistory[1]) = users["a1"].issueHistory[1]
        /\ users["a1"].issueHistory[1].comment # <<>>
        /\ ScoreEntry(users["a1"].issueHistory[2]) # users["a1"].issueHistory[2]

\* the fields of an entry, one by one
Fields(e) ==
    <<e.date, e.issuesCount.notDone, e.issuesCount.done, e.taskCompletionRate,
      e.userStoryCompletionRate, e.overallScore, e.comment, e.codeToBugRatio,
      e.notDoneIssues, e.doneIssues>>

\* the step stored `new` over `old` on behalf of a writer that had loaded
\* `loaded` and changed it into `updated`: every stored entry is kept, a
\* field of it differs only where the writer changed that field, entries
\* are only added at the end and are the writer's new ones, and
\* currentPerformance differs only if the writer changed it
OnlyOwnChanges(old, new, loaded, updated) ==
    LET n == Len(old.issueHistory)
        m == Len(loaded.issueHistory)
    IN /\ new.exists
       /\ Len(new.issueHistory) = n + (Len(updated.issueHistory) - m)
       /\ \A i \in 1..n : \A f \in 1..10 :
              Fields(new.issueHistory[i])[f] # Fields(old.issueHistory[i])[f]
                  => /\ i <= m
                     /\ Fields(updated.issueHistory[i])[f]
                            # Fields(loaded.issueHistory[i])[f]
                     /\ Fields(new.issueHistory[i])[f]
                            = Fields(updated.issueHistory[i])[f]
       /\ \A k \in 1..(Len(updated.issueHistory) - m) :
              new.issueHistory[n + k] = updated.issueHistory[m + k]
       /\ new.currentPerformance # old.currentPerformance
              => /\ updated.currentPerformance # loaded.currentPerformance
                 /\ new.currentPerformance = updated.currentPerformance

\* the writer changed an entry that its loaded copy held
ChangesAnEntry(loaded, updated) ==
    \E i \in 1..Len(loaded.issueHistory) :
        updated.issueHistory[i] # loaded.issueHistory[i]

\* the stored document has been written to since `loaded` was read, by a
\* push or by an update of an entry
Outdated(stored, loaded) == stored.versionKey # loaded.versionKey

C17_BatchIsolatesFailures ==
    \A t \in TaskIds :
        task[t].cron /\ task[t].pc = "error" => task[t].batch = <<>>

\* the calls, among the call records tk, that act on account a: the passes
\* for it and every scorer run
ActorsOn(tk, a) ==
    {t \in TaskIds :
        /\ tk[t].pc # "idle"
        /\ tk[t].op = "metrics" \/ tk[t].accountId = a}

\* no slot has been used twice: the running and ended calls are all the
\* calls made
EveryCallVisible(n, tk) ==
    n = Cardinality({t \in TaskIds : tk[t].pc # "idle"})

\* the documents that the pass of the call with record c, run alone on
\* doc0, has stored after as many upserts as the call has saved (all of
\* them, when it ended well)
PassAlone(c, doc0) ==
    {ApplyUpserts(doc0, c.op, SubSeq(todo, 1, c.saved)) :
        todo \in {td \in {SaveArgs(c.op, Combine(i1, i2),
                                   Classify(c.op, Combine(i1, i2)).buckets) :
                             i1 \in StoreResponses, i2 \in StoreResponses} :
                     /\ Len(td) >= c.saved
                     /\ c.pc = "ok" => Len(td) = c.saved}}

\* the documents that the scorer run of the call with record c, alone, has
\* stored for a user it found as doc0
ScorerAlone(c, a, doc0) ==
    IF c.pc = "find" \/ a \in c.pending THEN {doc0}
    ELSE IF c.pc = "ok" THEN {SaveScored(doc0, doc0).doc}
    ELSE {doc0, SaveScored(doc0, doc0).doc}

\* in the state of records us, call records tk and n calls made, the
\* record of an account on which at most one call acts is the one that
\* call alone gives it
AsAlone(us, tk, n) ==
    EveryCallVisible(n, tk) =>
        \A a \in AccountIds :
            /\ ActorsOn(tk, a) = {} => us[a] = StoredAtStart(a)
            /\ \A t \in TaskIds :
                   ActorsOn(tk, a) = {t} =>
                       us[a] \in IF tk[t].op = "metrics"
                                 THEN ScorerAlone(tk[t], a, StoredAtStart(a))
                                 ELSE PassAlone(tk[t], StoredAtStart(a))

\* C20: a step changes the record of an account only if it is the save of
\* an upsert for that account or the scorer's save of that account, so no
\* operation on A changes a field of B; and in every interleaving of a call
\* on one account with calls on the other, the record of the account is the
\* one its own call gives it when run alone.
C20_AccountsIndependent ==
    [][/\ \A b \in AccountIds :
              users'[b] # users[b] =>
                  \E t \in TaskIds :
                      \/ Saves(t) /\ task[t].accountId = b
                      \/ MetricsSaved(t, b)
       /\ AsAlone(users', task', started')]_vars

\* C20 witness: a pass for the first user and a pass for the second ran at
\* the same time and both ended well, each having stored two upserts
C20_Witness ==
    /\ started = 2
    /\ \A t \in TaskIds :
           /\ task[t].op \in Variants
           /\ task[t].pc = "ok"
           /\ task[t].saved = 2
           /\ task[t].accountId = AccountOf(t)
           /\ users[AccountOf(t)] # StoredAtStart(AccountOf(t))

\* C21: the stored currentPerformance of an account changes only in a step
\* that is the scorer's save of that account; the save of a not-done or
\* done upsert, and so every step of a classification pass, leaves the
\* currentPerformance of every account as it was.
C21_PerformanceOnlyByScorer ==
    [][/\ \A b \in AccountIds :
              users'[b].currentPerformance # users[b].currentPerformance =>
                  \E t \in TaskIds : MetricsSaved(t, b)
       /\ \A t \in TaskIds :
              Saves(t) =>
                  \A b \in AccountIds :
                      users'[b].currentPerformance = users[b].currentPerformance]_vars

\* C21 witness: a pass has stored upserts on an account whose
\* currentPerformance the scorer had set to a non-zero value, and the
\* value is still there
C21_Witness ==
    \E t, s \in TaskIds :
        /\ task[t].op \in Variants /\ task[t].pc = "ok" /\ task[t].saved > 0
        /\ task[s].op = "metrics" /\ task[s].saved > 0
        /\ users[task[t].accountId].currentPerformance.num > 0
        /\ users[task[t].accountId].issueHistory
               # StoredAtStart(task[t].accountId).issueHistory

-----------------------------------------------------------------------------
(* Properties of the bug-link ratios, under SpecRatio *)

\* the positions of the merged list holding an issue due on the date
DoneDueOn(date) ==
    {i \in 1..Len(combined) :
        ~combined[i].duedate.null /\ SplitTFirst(combined[i].duedate.s) = date}

LinksAt(i) ==
    IF combined[i].issuelinks.present THEN combined[i].issuelinks.links ELSE <<>>

\* the links, as (issue, link) positions, of the issues due on the date
LinksDueOn(date) ==
    {p \in (1..Len(combined)) \X (1..2) :
        p[1] \in DoneDueOn(date) /\ p[2] <= Len(LinksAt(p[1]))}

IsBlocksToBug(l) ==
    l.type = "Blocks" /\ l.outwardIssue.present /\ l.outwardIssue.issuetype = "Bug"

IsLinkToBug(l) ==
    \/ l.outwardIssue.present /\ l.outwardIssue.issuetype = "Bug"
    \/ l.inwardIssue.present /\ l.inwardIssue.issuetype = "Bug"

StoredBy(v) == cpc = "saved" /\ variant = v

\* C22: after countDoneIssues has stored its entries, the codeToBugRatio of
\* the entry of each date is the number of "Blocks" links with an outward
\* Bug over the done issues due that date, divided by the number of done
\* Tasks plus done Stories due that date, and 0 when there is none of these.
C22_WindowRatio ==
    StoredBy("done30") =>
        \A k \in 1..Len(users["a1"].issueHistory) :
            LET e == users["a1"].issueHistory[k]
                bugLinks == Cardinality({p \in LinksDueOn(e.date) :
                                            IsBlocksToBug(LinksAt(p[1])[p[2]])})
                tasksAndStories ==
                    Cardinality({i \in DoneDueOn(e.date) :
                                    combined[i].issuetype \in {"Task", "Story"}})
            IN IF tasksAndStories = 0 THEN e.codeToBugRatio.num = 0
               ELSE e.codeToBugRatio.num * tasksAndStories
                        = bugLinks * e.codeToBugRatio.den

\* C22 witness: countDoneIssues stored a date with a ratio above 0, and a
\* date holding only a Bug, which blocks a Bug, with ratio 0
C22_Witness ==
    /\ StoredBy("done30")
    /\ \E k \in 1..Len(users["a1"].issueHistory) :
           users["a1"].issueHistory[k].codeToBugRatio.num > 0
    /\ \E k \in 1..Len(users["a1"].issueHistory) :
           LET e == users["a1"].issueHistory[k] IN
           /\ e.codeToBugRatio.num = 0
           /\ \E p \in LinksDueOn(e.date) : IsBlocksToBug(LinksAt(p[1])[p[2]])

\* C23: after countDoneIssuesForToday has stored its entries, the
\* codeToBugRatio of the entry of each date is, to 2 decimals, the number of
\* links to a Bug, inward or outward, over all done issues due that date,
\* divided by the number of done Tasks and Stories due that date that have
\* such a link, and 0 when there is none of these.
C23_TodayRatio ==
    StoredBy("doneToday") =>
        \A k \in 1..Len(users["a1"].issueHistory) :
            LET e == users["a1"].issueHistory[k]
                linkedBugsCount ==
                    Cardinality({p \in LinksDueOn(e.date) :
                                    IsLinkToBug(LinksAt(p[1])[p[2]])})
                taskAndStoryCount ==
                    Cardinality({i \in DoneDueOn(e.date) :
                                    /\ combined[i].issuetype \in {"Task", "Story"}
                                    /\ \E j \in 1..Len(LinksAt(i)) :
                                           IsLinkToBug(LinksAt(i)[j])})
                hundredths == e.codeToBugRatio.num * (100 \div e.codeToBugRatio.den)
            IN IF taskAndStoryCount = 0 THEN e.codeToBugRatio.num = 0
               ELSE /\ 100 % e.codeToBugRatio.den = 0
                    /\ 2 * (100 * linkedBugsCount - hundredths * taskAndStoryCount)
                           <= taskAndStoryCount
                    /\ 2 * (hundredths * taskAndStoryCount - 100 * linkedBugsCount)
                           <= taskAndStoryCount

\* C23 witness: countDoneIssuesForToday stored a ratio that rounding changed
\* (4 links to a Bug over 3 linked Tasks: 1.33)
C23_Witness ==
    /\ StoredBy("doneToday")
    /\ \E k \in 1..Len(users["a1"].issueHistory) :
           LET e == users["a1"].issueHistory[k] IN
           /\ e.codeToBugRatio = Frac(133, 100)
           /\ Cardinality({p \in LinksDueOn(e.date) :
                              IsLinkToBug(LinksAt(p[1])[p[2]])}) = 4

-----------------------------------------------------------------------------
(* Properties of archiveUser and deleteUser, under SpecUsers *)

\* call t leaves its findOne in this step
Found(t, op) ==
    task[t].op = op /\ task[t].pc = "find" /\ task'[t].pc # "find"

\* C24: archiveUser ends with not-found when its findOne finds no account
\* of the id and with conflict when it finds the account archived, storing
\* nothing either way; isArchive becomes true only by the save of an
\* archiveUser on a stored account that is not archived; an account that
\* is archived stays archived as long as it is stored, so every
\* archiveUser that looks it up from then on ends with conflict.
C24_ArchiveOutcomes ==
    [][/\ \A t \in TaskIds :
              Found(t, "archive") =>
                  LET acc == task[t].accountId IN
                  /\ users' = users
                  /\ ~users[acc].exists <=> task'[t].pc = "notFound"
                  /\ users[acc].exists /\ users[acc].isArchive
                         <=> task'[t].pc = "conflict"
       /\ \A a \in AccountIds :
              users[a].exists /\ users'[a].exists
                 /\ users'[a].isArchive # users[a].isArchive
                  => /\ ~users[a].isArchive
                     /\ \E t \in TaskIds :
                            /\ task[t].op = "archive" /\ task[t].pc = "save"
                            /\ task[t].accountId = a
                            /\ task'[t].pc = "ok"
                            /\ ~task[t].user.isArchive
       /\ \A a \in AccountIds :
              users[a].exists /\ users[a].isArchive /\ users'[a].exists
                  => users'[a].isArchive]_vars

\* C24 witness: an archiveUser archived the account and a second one on
\* the same account ended with conflict
C24_Witness ==
    \E t, s \in TaskIds :
        /\ task[t].op = "archive" /\ task[t].pc = "ok"
        /\ task[s].op = "archive" /\ task[s].pc = "conflict"
        /\ task[s].accountId = task[t].accountId
        /\ users[task[t].accountId].exists
        /\ users[task[t].accountId].isArchive

\* C25: deleteUser ends with not-found when its findOne finds no account of
\* the id, storing nothing; when it finds one, its findOneAndDelete leaves
\* no account of the id, and so none of its history, leaves every other
\* account as it was, and the call reports success.
C25_DeleteOutcomes ==
    [][\A t \in TaskIds :
          /\ Found(t, "delete") =>
                 /\ users' = users
                 /\ ~users[task[t].accountId].exists <=> task'[t].pc = "notFound"
          /\ task[t].op = "delete" /\ task[t].pc = "delete" /\ task'[t].pc = "ok" =>
                 /\ ~users'[task[t].accountId].exists
                 /\ \A b \in AccountIds \ {task[t].accountId} : users'[b] = users[b]
          /\ task[t].op = "delete" /\ task'[t].pc # task[t].pc
                 /\ task'[t].pc \in {"notFound", "error"}
                 => users' = users]_vars

\* C25 witness: a deleteUser removed the account that held a history, the
\* other account is stored as before, and a later deleteUser of the same
\* id ended with not-found
C25_Witness ==
    /\ task["t1"].op = "delete" /\ task["t1"].pc = "notFound"
    /\ task["t1"].accountId = "a2"
    /\ started = 2
    /\ task["t2"].pc = "idle"
    /\ ~users["a2"].exists
    /\ users["a1"] = StoredAtStart("a1")
    /\ StoredAtStart("a2").issueHistory # <<>>

-----------------------------------------------------------------------------
(* More properties of the scorer, under SpecScore *)

\* the fraction x lies between 0 and 100
Within100(x) == x.num >= 0 /\ x.num <= 100 * x.den

C27_OvershootScores100 ==
    \A a \in AccountIds :
        Scored(a) =>
            \A i \in 1..Len(users[a].issueHistory) :
                LET e == users[a].issueHistory[i] IN
                DoneTotal(e) > NotDoneTotal(e) => IsNumber(e.overallScore, 100)

\* C27 amended: after a scorer pass, an entry whose done total is above its
\* not-done total has both rates 100, and its overallScore is 100 when it
\* has a not-done Task, Bug or Story and 0 when it has none.
C27_OvershootScore ==
    \A a \in AccountIds :
        Scored(a) =>
            \A i \in 1..Len(users[a].issueHistory) :
                LET e == users[a].issueHistory[i] IN
                DoneTotal(e) > NotDoneTotal(e) =>
                    /\ IsNumber(e.taskCompletionRate, 100)
                    /\ IsNumber(e.userStoryCompletionRate, 100)
                    /\ IsNumber(e.overallScore,
                                IF NotDoneTotal(e) > 0 THEN 100 ELSE 0)

\* C27 witness: a scored history with an overshoot entry that has not-done
\* issues, scored 100, and an overshoot entry that has none, scored 0
C27_Witness ==
    /\ Scored("a1")
    /\ Len(users["a1"].issueHistory) = 2
    /\ \E i, j \in 1..2 :
           LET e == users["a1"].issueHistory[i]
               f == users["a1"].issueHistory[j]
           IN /\ DoneTotal(e) > NotDoneTotal(e) /\ NotDoneTotal(e) > 0
              /\ IsNumber(e.overallScore, 100)
              /\ DoneTotal(f) > 0 /\ NotDoneTotal(f) = 0
              /\ IsNumber(f.overallScore, 0)
              /\ IsNumber(f.taskCompletionRate, 100)

-----------------------------------------------------------------------------
(* Properties of a whole pass, under SpecPass *)

\* the snapshot was taken from an issue due on the date
SnapshotDueOn(snapshot, date) ==
    ~snapshot.dueDate.null /\ SplitTFirst(snapshot.dueDate.s) = date

\* C28: the only steps of a classification pass that change the store are
\* the saves of its upserts, and each of them is for a date that is the due
\* date of a fetched issue: it leaves every stored entry of another date
\* with all its fields, and adds at most an entry of its own date.  So the
\* entry of a date with no fetched issue keeps its counts and issue lists.
C28_OnlyFetchedDatesChange ==
    [][\A t \in TaskIds :
          /\ Saves(t) =>
                 LET a == Head(task[t].todo)
                     old == users[task[t].accountId].issueHistory
                     new == users'[task[t].accountId].issueHistory
                 IN /\ a.issues # <<>>
                    /\ \A k \in 1..Len(a.issues) : SnapshotDueOn(a.issues[k], a.date)
                    /\ Len(new) \in {Len(old), Len(old) + 1}
                    /\ \A i \in 1..Len(old) :
                           old[i].date # a.date => new[i] = old[i]
                    /\ Len(new) > Len(old) => new[Len(new)].date = a.date
                    /\ \A b \in AccountIds \ {task[t].accountId} :
                           users'[b] = users[b]
          /\ (task[t].op \in Variants /\ task'[t] # task[t] /\ ~Saves(t))
                 => users' = users]_vars

\* C28 witness: a pass whose shards answered with issues of one date only
\* ended well on a user that held entries of two dates: the entry of the
\* fetched date is changed, the entry of the other date is as it was, its
\* done counts not reset
C28_Witness ==
    /\ task["t1"].op \in Variants /\ task["t1"].pc = "ok"
    /\ task["t1"].saved = 1 /\ started = 1
    /\ task["t1"].accountId = "a2"
    /\ Len(users["a2"].issueHistory) = 2
    /\ users["a2"].issueHistory[1] # StoredAtStart("a2").issueHistory[1]
    /\ users["a2"].issueHistory[2] = StoredAtStart("a2").issueHistory[2]
    /\ users["a2"].issueHistory[2].issuesCount.done # ZeroCount

\* C30: the upserts of a pass are stored one date after another.  When the
\* upsert of a date fails, the pass ends with the internal error in that
\* step, which stores nothing and drops the dates still to come; what the
\* upserts of the earlier dates stored is still stored: the record is the
\* one given by the upserts saved so far, applied in order.
C30_NoRollback ==
    [][\A t \in TaskIds :
          task[t].op \in Variants =>
              /\ (task[t].pc \in {"load", "save"} /\ task'[t] # task[t] /\ ~Saves(t)
                     /\ task'[t].pc # "save")
                     => /\ task'[t].pc = "error"
                        /\ task'[t].todo = <<>>
                        /\ users' = users
              /\ (started' = 1 /\ task'[t].pc \in {"load", "save", "error", "ok"})
                     => users'[task'[t].accountId]
                            \in {ApplyUpserts(StoredAtStart(task'[t].accountId),
                                              task'[t].op,
                                              SubSeq(td, 1, task'[t].saved)) :
                                    td \in {x \in {SaveArgs(task'[t].op, Combine(i1, i2),
                                                        Classify(task'[t].op,
                                                                 Combine(i1, i2)).buckets) :
                                                      i1 \in PassResponses,
                                                      i2 \in PassResponses} :
                                               Len(x) >= task'[t].saved}}]_vars

\* C30 witness: a pass over two dates stored the upsert of the first date,
\* failed on the second and ended with the error: the first date's entry
\* is stored, the second date's is not
C30_Witness ==
    /\ task["t1"].op \in Variants /\ task["t1"].pc = "error"
    /\ task["t1"].saved = 1 /\ started = 1
    /\ task["t1"].accountId = "a1"
    /\ task["t1"].todo = <<>>
    /\ Len(users["a1"].issueHistory) = 1
    /\ users["a1"].issueHistory[1].date = <<"d1">>

-----------------------------------------------------------------------------
(* Properties of the scorer on a stored history, under SpecScore *)

\* what the scorer is not to touch in an entry
KeptByScorer(e) ==
    <<e.date, e.issuesCount.notDone, e.issuesCount.done, e.notDoneIssues,
      e.doneIssues, e.codeToBugRatio>>

\* C29: with no upsert running, every step that changes the store is the
\* save of a scorer for one account, and it changes at most the four derived
\* fields of that account's entries and its currentPerformance: the history
\* keeps its length and its order, every entry keeps its date, its counts,
\* its two issue lists and its codeToBugRatio, and no other account changes.
C29_ScorerChangesDerivedOnly ==
    [][/\ \A t \in TaskIds, a \in AccountIds :
              MetricsSaved(t, a) =>
                  /\ users'[a].exists = users[a].exists
                  /\ users'[a].isArchive = users[a].isArchive
                  /\ Len(users'[a].issueHistory) = Len(users[a].issueHistory)
                  /\ \A i \in 1..Len(users[a].issueHistory) :
                         KeptByScorer(users'[a].issueHistory[i])
                             = KeptByScorer(users[a].issueHistory[i])
                  /\ \A b \in AccountIds \ {a} : users'[b] = users[b]
       /\ users' # users =>
              \E t \in TaskIds, a \in AccountIds : MetricsSaved(t, a)]_vars

\* C29 witness: a scorer ended well on a history of two dates, out of
\* order, with issues stored on both: the derived fields and the account's
\* currentPerformance are no longer the defaults the passes stored, the
\* entries are where they were
C29_Witness ==
    \E t \in TaskIds :
        /\ task[t].op = "metrics" /\ task[t].pc = "ok" /\ task[t].saved = 1
        /\ Len(users["a1"].issueHistory) = 2
        /\ users["a1"].issueHistory[1].date # users["a1"].issueHistory[2].date
        /\ users["a1"].issueHistory[1].doneIssues # <<>>
        /\ users["a1"].issueHistory[2].notDoneIssues # <<>>
        /\ users["a1"].issueHistory[1].overallScore # Frac(0, 1)
        /\ users["a1"].issueHistory[1].comment # <<>>
        /\ users["a1"].currentPerformance # Frac(0, 1)

====
